---- MODULE Spec2Model ----
(***************************************************************************)
(* Content privacy sanitisation of the newsletter aggregator               *)
(* (backend/ingest/email/email_parser.py, sanitize_content) as a state     *)
(* machine.                                                                *)
(*                                                                         *)
(* A string is a sequence of symbols.  A symbol is one character, or one   *)
(* piece of HTML markup taken as a unit ("<p>", "</a>", the opening        *)
(* `<a href="` and the `">` that ends it, ...).  The characters of an href *)
(* value and of every text run are ordinary character symbols, so that the *)
(* regular expressions and the phrase redaction see them one by one.       *)
(***************************************************************************)
EXTENDS Integers, Sequences, FiniteSets, TLC

(***************************************************************************)
(* Characters                                                              *)
(***************************************************************************)

\* str.lower() of one character, as re.IGNORECASE compares them.
LowerMap ==
    [c \in {"A","B","C","D","E","F","G","H","I","J","K","L","M",
            "N","O","P","Q","R","S","T","U","V","W","X","Y","Z"} |->
        CASE c = "A" -> "a" [] c = "B" -> "b" [] c = "C" -> "c" [] c = "D" -> "d"
          [] c = "E" -> "e" [] c = "F" -> "f" [] c = "G" -> "g" [] c = "H" -> "h"
          [] c = "I" -> "i" [] c = "J" -> "j" [] c = "K" -> "k" [] c = "L" -> "l"
          [] c = "M" -> "m" [] c = "N" -> "n" [] c = "O" -> "o" [] c = "P" -> "p"
          [] c = "Q" -> "q" [] c = "R" -> "r" [] c = "S" -> "s" [] c = "T" -> "t"
          [] c = "U" -> "u" [] c = "V" -> "v" [] c = "W" -> "w" [] c = "X" -> "x"
          [] c = "Y" -> "y" [] c = "Z" -> "z"]

Lower(c) == IF c \in DOMAIN LowerMap THEN LowerMap[c] ELSE c

\* The characters \s matches and str.strip() trims.
Whitespace == {" ", "\t", "\n", "\r"}

\* s[a..b] as a sequence (empty when b < a).
Slice(s, a, b) == [k \in 1..(IF b >= a THEN b - a + 1 ELSE 0) |-> s[a + k - 1]]

RECURSIVE Concat(_)
\* "".join(parts)
Concat(parts) ==
    IF parts = <<>> THEN <<>> ELSE Head(parts) \o Concat(Tail(parts))

RECURSIVE Join(_, _)
\* sep.join(parts)
Join(sep, parts) ==
    IF parts = <<>> THEN <<>>
    ELSE IF Len(parts) = 1 THEN parts[1]
    ELSE parts[1] \o sep \o Join(sep, Tail(parts))

\* str.strip(): drop leading and trailing whitespace.
Strip(s) ==
    LET keep == {k \in 1..Len(s) : s[k] \notin Whitespace}
    IN IF keep = {} THEN <<>>
       ELSE LET lo == CHOOSE k \in keep : \A j \in keep : k <= j
                hi == CHOOSE k \in keep : \A j \in keep : k >= j
            IN Slice(s, lo, hi)

\* needle in hay, compared case-insensitively.
ContainsCI(hay, needle) ==
    \E p \in 1..(Len(hay) - Len(needle) + 1) :
        \A k \in 1..Len(needle) : Lower(hay[p + k - 1]) = Lower(needle[k])

(***************************************************************************)
(* Regular expressions (Python re, always used with re.IGNORECASE).        *)
(* A pattern is the sequence of its characters.  The fragment modelled is  *)
(* the one the pattern set and re.escape use: literals, backslash escapes, *)
(* \s, ".", "*", "^", "$" and top-level alternation "|".                   *)
(***************************************************************************)

\* The length of the run of backslashes that ends right before position i.
SlashRun(p, i) ==
    IF i = 1 \/ p[i - 1] # "\\" THEN 0
    ELSE Cardinality({k \in 1..(i - 1) : \A j \in k..(i - 1) : p[j] = "\\"})

\* The numbers 1..n in increasing order.
UpTo(n) == [i \in 1..n |-> i]

\* The unit of p that begins at position i: what it matches as an atom,
\* whether it is the alternation bar, whether it is a "*".
UnitAt(p, i) ==
    LET esc == p[i] = "\\" /\ i < Len(p)
    IN [kind |-> IF esc THEN (IF p[i + 1] = "s" THEN "ws" ELSE "lit")
                 ELSE IF p[i] = "." THEN "any"
                 ELSE IF p[i] = "^" THEN "bol"
                 ELSE IF p[i] = "$" THEN "eol"
                 ELSE "lit",
        ch   |-> IF esc THEN p[i + 1] ELSE p[i],
        bar  |-> ~esc /\ p[i] = "|",
        rep  |-> ~esc /\ p[i] = "*"]

UnitsAt(p, starts) == [k \in 1..Len(starts) |-> UnitAt(p, starts[k])]

\* sre_parse reads p left to right in units: a backslash with the character
\* it escapes, or one character.  A unit begins wherever an even run of
\* backslashes ends.
Units(p) ==
    LET Begins(i) == SlashRun(p, i) % 2 = 0
    IN UnitsAt(p, SelectSeq(UpTo(Len(p)), Begins))

\* Unit r begins the run of "*" units that unit j is in.
RunStart(u, j, r) ==
    /\ \A x \in r..j : u[x].rep
    /\ r = 1 \/ ~u[r - 1].rep

\* What stands before the run that begins at r can be repeated: a literal,
\* \s or ".".
Repeatable(u, r) ==
    r > 1 /\ ~u[r - 1].bar /\ u[r - 1].kind \in {"lit", "ws", "any"}

\* Unit j is a "*" that repeats the atom before it.  In a run of "*" the
\* first repeats what stands before the run when that can be repeated, the
\* next is then a literal "*", and so on in turn.
Repeats(u, j) ==
    /\ u[j].rep
    /\ \E r \in 1..j :
          /\ RunStart(u, j, r)
          /\ (j - r + 1) % 2 = (IF Repeatable(u, r) THEN 1 ELSE 0)

\* The atoms [kind, ch, star] of the units listed in own.
AtomsOf(u, own) ==
    [k \in 1..Len(own) |->
        [kind |-> u[own[k]].kind, ch |-> u[own[k]].ch,
         star |-> own[k] < Len(u) /\ Repeats(u, own[k] + 1)]]

\* The n-th alternative: the atoms between the bars n - 1 and n.
Alternative(u, bars, n) ==
    LET Own(j) == /\ ~u[j].bar /\ ~Repeats(u, j)
                  /\ Cardinality({b \in bars : b < j}) = n - 1
    IN AtomsOf(u, SelectSeq(UpTo(Len(u)), Own))

SplitAt(u, bars) ==
    [n \in 1..(Cardinality(bars) + 1) |-> Alternative(u, bars, n)]

Bars(u) == {j \in 1..Len(u) : u[j].bar}

SplitUnits(u) == SplitAt(u, Bars(u))

\* sre_parse: the alternatives of pattern p, each a sequence of atoms
\* [kind, ch, star].  "|" binds weakest, so it splits the whole pattern.
RegexParse(p) == SplitUnits(Units(p))

Alternatives(p) == RegexParse(p)

\* Unit j is a "*" with nothing to repeat: it stands at the start of the
\* pattern or right after "|", "^", "$" or another "*".
NothingToRepeat(u, j) ==
    /\ u[j].rep
    /\ \/ j = 1
       \/ u[j - 1].bar \/ u[j - 1].rep \/ u[j - 1].kind \in {"bol", "eol"}

\* re.compile over the units: every "*" has something to repeat.
CompileUnits(u) == \A j \in 1..Len(u) : ~NothingToRepeat(u, j)

\* The pattern compiles; re.search and re.match raise re.error otherwise:
\* a backslash needs a character after it, a "*" something to repeat.
CompileOk(p) == SlashRun(p, Len(p) + 1) % 2 = 0 /\ CompileUnits(Units(p))

\* One atom against one symbol.
AtomMatches(a, c) ==
    CASE a.kind = "lit" -> Lower(c) = Lower(a.ch)
      [] a.kind = "ws"  -> c \in Whitespace
      [] a.kind = "any" -> c # "\n"
      [] OTHER          -> FALSE

\* The positions at which atom a can end when it starts at a position of P.
AtomEnds(a, s, P) ==
    IF a.kind = "bol" THEN P \cap {1}
    ELSE IF a.kind = "eol" THEN
        {pos \in P : pos = Len(s) + 1 \/ (pos = Len(s) /\ s[pos] = "\n")}
    ELSE IF a.star THEN
        UNION { {k \in pos..(Len(s) + 1) :
                   \A j \in pos..(k - 1) : AtomMatches(a, s[j])} : pos \in P }
    ELSE {pos + 1 : pos \in {q \in P : q <= Len(s) /\ AtomMatches(a, s[q])}}

RECURSIVE AtomsEnd(_, _, _, _, _)
\* The positions at which atoms[lo..hi], matched one after the other, can
\* end when the first starts at a position of P.
AtomsEnd(atoms, lo, hi, s, P) ==
    IF lo > hi THEN P
    ELSE IF lo = hi THEN AtomEnds(atoms[lo], s, P)
    ELSE LET mid  == (lo + hi) \div 2
             left == AtomsEnd(atoms, lo, mid, s, P)
         IN IF left = {} THEN {} ELSE AtomsEnd(atoms, mid + 1, hi, s, left)

\* The positions at which a match of atoms[i..] that starts at pos can end.
Ends(atoms, i, s, pos) == AtomsEnd(atoms, i, Len(atoms), s, {pos})

\* Some match of atoms[i..] starts at pos.
Matches(atoms, i, s, pos) == Ends(atoms, i, s, pos) # {}

\* Some alternative has a match that starts at a position of P.
MatchAt(alts, s, P) ==
    \E k \in 1..Len(alts) : AtomsEnd(alts[k], 1, Len(alts[k]), s, P) # {}

\* re.match(p, s, re.IGNORECASE): a match that starts at the first symbol.
re_match(p, s) == MatchAt(Alternatives(p), s, {1})

\* re.search(p, s, re.IGNORECASE): a match that starts anywhere.
re_search(p, s) == MatchAt(Alternatives(p), s, 1..(Len(s) + 1))

Least(S) == CHOOSE x \in S : \A y \in S : x <= y

Greatest(S) == CHOOSE x \in S : \A y \in S : x >= y

\* The end of the match that starts at pos, given the alternatives ok that
\* match there: the first of them, taken greedily; 0 when there is none.
EndOf(alts, s, pos, ok) ==
    IF ok = {} THEN 0 ELSE Greatest(Ends(alts[Least(ok)], 1, s, pos))

\* The end of the match that starts at pos, 0 when there is none.
MatchEnd(alts, s, pos) ==
    EndOf(alts, s, pos, {k \in 1..Len(alts) : Matches(alts[k], 1, s, pos)})

\* The positions at which a match that is not empty starts.
MatchStarts(alts, s) == {p \in 1..Len(s) : MatchEnd(alts, s, p) > p}

RECURSIVE SubFrom(_, _, _, _, _)
\* s from pos on: the text up to the leftmost match is copied, the match is
\* replaced and the scan goes on behind it.
SubFrom(alts, repl, s, pos, starts) ==
    LET next == {p \in starts : p >= pos}
    IN IF next = {} THEN SubSeq(s, pos, Len(s))
       ELSE SubSeq(s, pos, Least(next) - 1) \o repl
            \o SubFrom(alts, repl, s, MatchEnd(alts, s, Least(next)), starts)

SubAll(alts, repl, s) == SubFrom(alts, repl, s, 1, MatchStarts(alts, s))

\* re.sub(p, repl, s, flags=re.IGNORECASE): every non-overlapping match,
\* leftmost first, replaced by repl.
re_sub(p, repl, s) == SubAll(Alternatives(p), repl, s)

\* The characters re.escape puts a backslash before.
SpecialChars ==
    {"(", ")", "[", "]", "{", "}", "?", "*", "+", "-", "|", "^", "$", "\\",
     ".", "&", "~", "#", " ", "\t", "\n", "\r"}

\* A redaction that uses the phrase as it is, without re.escape.
re_escape_Skipped(s) == s

RECURSIVE re_escape(_)
\* re.escape: the string as a pattern that matches it literally.
re_escape(s) ==
    IF s = <<>> THEN <<>>
    ELSE (IF Head(s) \in SpecialChars THEN <<"\\", Head(s)>> ELSE <<Head(s)>>)
         \o re_escape(Tail(s))

(***************************************************************************)
(* HTML markup symbols and the parse tree (BeautifulSoup, 'html.parser').  *)
(***************************************************************************)

AHREF   == "<a href=\""
HREFEND == "\">"

\* The opening tags of the model, with what a CSS selector reads of them.
OpenTags ==
    [t \in {"<p>", "<div>", "<div class=\"unsubscribe\">",
            "<div id=\"footer-links\">", "<a>", "<img>", "<img/>"} |->
        CASE t = "<p>"    -> [name |-> "p",   cls |-> "", id |-> ""]
          [] t = "<div>"  -> [name |-> "div", cls |-> "", id |-> ""]
          [] t = "<div class=\"unsubscribe\">"
                          -> [name |-> "div", cls |-> "unsubscribe", id |-> ""]
          [] t = "<div id=\"footer-links\">"
                          -> [name |-> "div", cls |-> "", id |-> "footer-links"]
          [] t = "<a>"    -> [name |-> "a",   cls |-> "", id |-> ""]
          [] OTHER        -> [name |-> "img", cls |-> "", id |-> ""]]

CloseTags ==
    [t \in {"</p>", "</div>", "</a>"} |->
        CASE t = "</p>" -> "p" [] t = "</div>" -> "div" [] OTHER -> "a"]

CloseSym(name) == CHOOSE t \in DOMAIN CloseTags : CloseTags[t] = name

\* Elements that never have children: the parser closes them at once and
\* the serializer writes them self-closed.
VoidNames == {"img"}

TagNode(open, info, hasHref, href, parent) ==
    [kind |-> "tag", open |-> open, name |-> info.name, cls |-> info.cls,
     id |-> info.id, hasHref |-> hasHref, href |-> href, text |-> <<>>,
     parent |-> parent, gone |-> FALSE]

TextNode(text, parent) ==
    [kind |-> "text", open |-> "", name |-> "", cls |-> "", id |-> "",
     hasHref |-> FALSE, href |-> <<>>, text |-> text,
     parent |-> parent, gone |-> FALSE]

\* The element new nodes are added to: the innermost open one, 0 the soup.
Top(stack) == IF stack = <<>> THEN 0 ELSE stack[Len(stack)]

\* Data reaching the tree builder: it extends the text node being built or
\* starts a new one under the innermost open element.
AddText(st, syms) ==
    IF st.lastText # 0
    THEN [st EXCEPT !.nodes[st.lastText].text = @ \o syms]
    ELSE [st EXCEPT !.nodes = Append(@, TextNode(syms, Top(st.stack))),
                    !.lastText = Len(st.nodes) + 1]

\* One symbol of the input through the tree builder.
\* st = [nodes, stack, inHref, buf, lastText].
ParseStep(st, sym) ==
    IF st.inHref THEN
        IF sym = HREFEND
        THEN [st EXCEPT
                !.nodes = Append(@, TagNode(AHREF, OpenTags["<a>"], TRUE,
                                            st.buf, Top(st.stack))),
                !.stack = Append(@, Len(st.nodes) + 1),
                !.inHref = FALSE, !.buf = <<>>]
        ELSE [st EXCEPT !.buf = Append(@, sym)]
    ELSE IF sym = AHREF THEN
        [st EXCEPT !.inHref = TRUE, !.buf = <<>>, !.lastText = 0]
    ELSE IF sym \in DOMAIN OpenTags THEN
        LET info == OpenTags[sym] IN
        [st EXCEPT
            !.nodes = Append(@, TagNode(sym, info, FALSE, <<>>, Top(st.stack))),
            !.stack = IF info.name \in VoidNames THEN @
                      ELSE Append(@, Len(st.nodes) + 1),
            !.lastText = 0]
    ELSE IF sym \in DOMAIN CloseTags THEN
        \* _popToTag: close up to the innermost open element of that name;
        \* an end tag that closes nothing is dropped.
        LET open == {k \in 1..Len(st.stack) :
                        st.nodes[st.stack[k]].name = CloseTags[sym]}
        IN [st EXCEPT
              !.stack = IF open = {} THEN @
                        ELSE SubSeq(@, 1,
                               (CHOOSE k \in open : \A j \in open : k >= j) - 1),
              !.lastText = 0]
    ELSE AddText(st, <<sym>>)

RECURSIVE ParseRange(_, _, _, _)
\* The tree builder st after the symbols s[lo..hi] went through it, one at
\* a time in their order.
ParseRange(s, lo, hi, st) ==
    IF lo > hi THEN st
    ELSE IF lo = hi THEN ParseStep(st, s[lo])
    ELSE LET mid  == (lo + hi) \div 2
             left == ParseRange(s, lo, mid, st)
         IN \* the first half is worked out before the second is begun
            IF left.inHref \in BOOLEAN
            THEN ParseRange(s, mid + 1, hi, left) ELSE left

\* BeautifulSoup(content, 'html.parser'): the nodes in document order, each
\* with the index of its parent (0 for the soup itself).  At the end of the
\* input a start tag that never ended is kept as data, and every element
\* still open is closed.
Parse(s) ==
    LET st == ParseRange(s, 1, Len(s),
                         [nodes |-> <<>>, stack |-> <<>>, inHref |-> FALSE,
                          buf |-> <<>>, lastText |-> 0])
    IN (IF st.inHref THEN AddText(st, <<AHREF>> \o st.buf) ELSE st).nodes

RECURSIVE IsUnder(_, _, _)
\* Node j lies in the subtree below node i.
IsUnder(nodes, j, i) ==
    /\ nodes[j].parent # 0
    /\ \/ nodes[j].parent = i
       \/ IsUnder(nodes, nodes[j].parent, i)

\* The nodes of the subtree of i, i included.
Subtree(nodes, i) == {i} \cup {j \in 1..Len(nodes) : IsUnder(nodes, j, i)}

\* The nodes still in the tree.
InTree(nodes) == {j \in 1..Len(nodes) : ~nodes[j].gone}

\* A decompose that destroys the element's parent (a.parent.decompose()):
\* siblings of the element go with it, the whole document when the element
\* is at top level.
Decompose_Parent(nodes, i) ==
    LET sub == IF nodes[i].parent = 0 THEN 1..Len(nodes)
               ELSE Subtree(nodes, nodes[i].parent)
    IN [j \in 1..Len(nodes) |->
          IF j \in sub THEN [nodes[j] EXCEPT !.gone = TRUE] ELSE nodes[j]]

\* Tag.decompose(): the element and its whole subtree leave the tree and
\* are destroyed.
Decompose(nodes, i) ==
    LET sub == Subtree(nodes, i)
    IN [j \in 1..Len(nodes) |->
          IF j \in sub THEN [nodes[j] EXCEPT !.gone = TRUE] ELSE nodes[j]]

\* Tag.unwrap(): the element leaves the tree and its children take its
\* place in its parent, in their order.
Unwrap(nodes, i) ==
    [j \in 1..Len(nodes) |->
        IF j = i THEN [nodes[j] EXCEPT !.gone = TRUE]
        ELSE IF nodes[j].parent = i
             THEN [nodes[j] EXCEPT !.parent = nodes[i].parent]
        ELSE nodes[j]]

RECURSIVE SerializeFrom(_, _, _)
\* The serialization of the children of `parent` with index >= k.
SerializeFrom(nodes, parent, k) ==
    IF k > Len(nodes) THEN <<>>
    ELSE LET n == nodes[k] IN
      IF n.gone \/ n.parent # parent THEN SerializeFrom(nodes, parent, k + 1)
      ELSE (IF n.kind = "text" THEN n.text
            ELSE IF n.name \in VoidNames THEN <<"<img/>">>
            ELSE (IF n.hasHref THEN <<AHREF>> \o n.href \o <<HREFEND>>
                  ELSE <<n.open>>)
                 \o SerializeFrom(nodes, k, k + 1)
                 \o <<CloseSym(n.name)>>)
           \o SerializeFrom(nodes, parent, k + 1)

\* str(soup)
Serialize(nodes) == SerializeFrom(nodes, 0, 1)

RECURSIVE TextsFrom(_, _, _)
TextsFrom(nodes, a, k) ==
    IF k > Len(nodes) THEN <<>>
    ELSE (IF /\ nodes[k].kind = "text"
             /\ ~nodes[k].gone
             /\ IsUnder(nodes, k, a)
             /\ Strip(nodes[k].text) # <<>>
          THEN << Strip(nodes[k].text) >> ELSE <<>>)
         \o TextsFrom(nodes, a, k + 1)

\* a.get_text(" ", strip=True): the text nodes below a, each stripped, the
\* empty ones dropped, joined by one space.
get_text(nodes, a) == Join(<<" ">>, TextsFrom(nodes, a, a + 1))

\* a.find(['img', 'picture', 'svg']) is not None
HasMedia(nodes, a) ==
    LET
        \* a.find(['img', 'picture', 'svg']) looks for these names.
        MediaNames == {"img", "picture", "svg"}
    IN
        \E j \in InTree(nodes) :
            /\ nodes[j].kind = "tag"
            /\ nodes[j].name \in MediaNames
            /\ IsUnder(nodes, j, a)

\* soup.select(selector): the elements in the tree the selector matches.
Select(nodes, selector) ==
    LET
        \* What the selectors of the pattern set select on: ".c" a class, "#i" an id.
        SelectorTable ==
            [s \in {".unsubscribe", "#footer-links"} |->
                IF s = ".unsubscribe" THEN [by |-> "class", v |-> "unsubscribe"]
                ELSE [by |-> "id", v |-> "footer-links"]]
    IN
        {j \in InTree(nodes) :
            /\ nodes[j].kind = "tag"
            /\ LET sel == SelectorTable[selector] IN
                 IF sel.by = "class" THEN nodes[j].cls = sel.v
                 ELSE nodes[j].id = sel.v}

\* soup.find_all('a'): every anchor in the tree, with or without an href.
Anchors_All(nodes) ==
    {j \in InTree(nodes) : nodes[j].kind = "tag" /\ nodes[j].name = "a"}

\* soup.find_all('a', href=True): the anchors in the tree that carry an href.
Anchors(nodes) ==
    {j \in InTree(nodes) :
        nodes[j].kind = "tag" /\ nodes[j].name = "a" /\ nodes[j].hasHref}

(***************************************************************************)
(* The pattern set and the redaction phrases                               *)
(***************************************************************************)

\* config/privacy_patterns: two of the URL patterns, two of the text
\* patterns and two of the selectors the repository ships.
DefaultPatterns ==
    [url_patterns |->
        << <<"r", "s", "6", "\\", ".", "n", "e", "t", "/", "t", "n", "\\", ".", "j", "s", "p">>,
           <<"m", "a", "i", "l", "c", "h", "i", "\\", ".", "m", "p", "/", ".", "*", "\\", "?", "e", "=">> >>,
     text_patterns |->
        << <<"u", "n", "s", "u", "b", "s", "c", "r", "i", "b", "e">>,
           <<"v", "i", "e", "w", ".", "*", "b", "r", "o", "w", "s", "e", "r">> >>,
     selectors |-> <<".unsubscribe", "#footer-links">>]

\* A pattern file with a shell wildcard among its URL patterns, '*.gov',
\* which is not a regular expression (nothing to repeat).
InvalidPatterns ==
    [url_patterns |->
        << DefaultPatterns.url_patterns[1], <<"*", ".", "g", "o", "v">> >>,
     text_patterns |-> << DefaultPatterns.text_patterns[1] >>,
     selectors |-> DefaultPatterns.selectors]

\* What load_privacy_patterns falls back to when the file cannot be read.
FallbackPatterns == [url_patterns |-> <<>>, selectors |-> <<>>]

\* dict.get(key, [])
Get(patterns, key) == IF key \in DOMAIN patterns THEN patterns[key] ELSE <<>>

\* A load that never gets to the file (a wrong config_path) and always
\* ends in the fallback.
load_privacy_patterns_NoFile(cache, file) ==
    IF cache # <<>> THEN cache[1]
    ELSE FallbackPatterns

\* load_privacy_patterns: the cached pattern set, or the file's, or the
\* fallback.  cache and file are <<>> (None / unreadable) or <<patterns>>.
load_privacy_patterns(cache, file) ==
    IF cache # <<>> THEN cache[1]
    ELSE IF file # <<>> THEN file[1]
    ELSE FallbackPatterns

REDACTED == <<"[", "R", "E", "D", "A", "C", "T", "E", "D", "]">>

RECURSIVE SplitOn(_, _, _)
\* str.split(sep) for a one-character separator; cur is the piece under way.
SplitOn(s, sep, cur) ==
    IF s = <<>> THEN <<cur>>
    ELSE IF Head(s) = sep THEN <<cur>> \o SplitOn(Tail(s), sep, <<>>)
    ELSE SplitOn(Tail(s), sep, Append(cur, Head(s)))

RECURSIVE StripAll(_)
\* [p.strip() for p in parts if p.strip()]
StripAll(parts) ==
    IF parts = <<>> THEN <<>>
    ELSE (IF Strip(Head(parts)) # <<>> THEN << Strip(Head(parts)) >> ELSE <<>>)
         \o StripAll(Tail(parts))

\* The phrases of PRIVACY_STRIP_PHRASES: split at commas, trimmed, the empty
\* ones dropped.
phrases_to_strip(env) == StripAll(SplitOn(env, ",", <<>>))

RECURSIVE Redact(_, _)
\* Each phrase in turn, escaped, replaced by the marker wherever it matches.
Redact(result, phrases) ==
    IF phrases = <<>> THEN result
    ELSE Redact(re_sub(re_escape(Head(phrases)), REDACTED, result), Tail(phrases))

(***************************************************************************)
(* HTML mode                                                               *)
(***************************************************************************)

\* Some pattern of the list is found in s (re.search, first hit wins).
AnySearch(patterns, s) == \E k \in 1..Len(patterns) : re_search(patterns[k], s)

RECURSIVE SearchOutcome(_, _, _)
\* The loop over a pattern list, from pattern k on: "hit" at the first
\* pattern found in s (break), "error" when a pattern that does not compile
\* is reached first, "miss" when the list is exhausted.
SearchOutcome(patterns, k, s) ==
    IF k > Len(patterns) THEN "miss"
    ELSE IF ~CompileOk(patterns[k]) THEN "error"
    ELSE IF re_search(patterns[k], s) THEN "hit"
    ELSE SearchOutcome(patterns, k + 1, s)

\* Evaluating anchor a raises re.error: the URL loop reaches a pattern that
\* does not compile, or finds nothing and the text loop reaches one.
LinkRaises(nodes, a, url_patterns, text_patterns) ==
    LET u == SearchOutcome(url_patterns, 1, nodes[a].href)
    IN \/ u = "error"
       \/ /\ u = "miss"
          /\ SearchOutcome(text_patterns, 1, get_text(nodes, a)) = "error"

\* A loop whose matched flag starts out True: every anchor is treated as
\* matched, whatever the patterns say.
Disposition_AlwaysMatched(nodes, a, url_patterns, text_patterns) ==
    IF HasMedia(nodes, a) THEN "unwrap" ELSE "remove"

\* The decision the loop takes for anchor a of the tree: keep, unwrap or
\* remove.
Disposition(nodes, a, url_patterns, text_patterns) ==
    LET matched == \/ AnySearch(url_patterns, nodes[a].href)
                   \/ AnySearch(text_patterns, get_text(nodes, a))
    IN IF ~matched THEN "keep"
       ELSE IF HasMedia(nodes, a) THEN "unwrap"
       ELSE "remove"

RECURSIVE RemoveSelected(_, _)
\* Step 1: for each selector in turn, every element it selects is decomposed.
RemoveSelected(nodes, selectors) ==
    IF selectors = <<>> THEN nodes
    ELSE LET hit == Select(nodes, Head(selectors))
             dead == UNION {Subtree(nodes, m) : m \in hit}
         IN RemoveSelected(
              [j \in 1..Len(nodes) |->
                  IF j \in dead THEN [nodes[j] EXCEPT !.gone = TRUE] ELSE nodes[j]],
              Tail(selectors))

RECURSIVE EvalLinks(_, _, _, _, _)
\* Step 2: the anchors found before the loop started, in document order.
\* An anchor destroyed meanwhile (it lay inside an anchor the loop removed)
\* has lost its attributes, and reading a['href'] raises; so does a pattern
\* that does not compile.
EvalLinks(nodes, anchors, k, url_patterns, text_patterns) ==
    IF k > Len(nodes) THEN [soup |-> nodes, raised |-> FALSE]
    ELSE IF k \notin anchors
         THEN EvalLinks(nodes, anchors, k + 1, url_patterns, text_patterns)
    ELSE IF nodes[k].gone THEN [soup |-> nodes, raised |-> TRUE]
    ELSE IF LinkRaises(nodes, k, url_patterns, text_patterns)
         THEN [soup |-> nodes, raised |-> TRUE]
    ELSE LET d == Disposition(nodes, k, url_patterns, text_patterns)
             next == IF d = "unwrap" THEN Unwrap(nodes, k)
                     ELSE IF d = "remove" THEN Decompose(nodes, k)
                     ELSE nodes
         IN EvalLinks(next, anchors, k + 1, url_patterns, text_patterns)

\* The try block of the html branch: the tree it leaves and whether it
\* raised.
SanitizeHtml(content, patterns) ==
    LET nodes == RemoveSelected(Parse(content), Get(patterns, "selectors"))
    IN EvalLinks(nodes, Anchors(nodes), 1,
                 Get(patterns, "url_patterns"), Get(patterns, "text_patterns"))

(***************************************************************************)
(* Text mode                                                               *)
(***************************************************************************)

RECURSIVE SplitLines(_, _)
\* str.splitlines(): "\n", "\r" and "\r\n" end a line; no empty last line.
SplitLines(s, cur) ==
    LET ends == {k \in 1..Len(s) : s[k] \in {"\n", "\r"}}
    IN IF ends = {} THEN (IF cur \o s = <<>> THEN <<>> ELSE <<cur \o s>>)
       ELSE LET k == CHOOSE k \in ends : \A j \in ends : k <= j
                n == IF s[k] = "\r" /\ k < Len(s) /\ s[k + 1] = "\n"
                     THEN 2 ELSE 1
            IN <<cur \o SubSeq(s, 1, k - 1)>>
               \o SplitLines(SubSeq(s, k + n, Len(s)), <<>>)

\* rf'^\s*{pattern}\s*$'
strict_pattern(pattern) ==
    <<"^", "\\", "s", "*">> \o pattern \o <<"\\", "s", "*", "$">>

is_standalone_keyword(line, text_patterns) ==
    \E k \in 1..Len(text_patterns) : re_match(strict_pattern(text_patterns[k]), line)

\* The line is skipped by the loop of the text branch.
LineDropped(line, url_patterns, text_patterns) ==
    \/ AnySearch(url_patterns, line)
    \/ is_standalone_keyword(line, text_patterns)

RECURSIVE StrictOutcome(_, _, _)
\* The loop over the text patterns for one line, from pattern k on.
StrictOutcome(text_patterns, k, line) ==
    IF k > Len(text_patterns) THEN "miss"
    ELSE IF ~CompileOk(strict_pattern(text_patterns[k])) THEN "error"
    ELSE IF re_match(strict_pattern(text_patterns[k]), line) THEN "hit"
    ELSE StrictOutcome(text_patterns, k + 1, line)

\* Handling the line raises re.error; nothing in the text branch catches it.
LineRaises(line, url_patterns, text_patterns) ==
    LET u == SearchOutcome(url_patterns, 1, line)
    IN \/ u = "error"
       \/ u = "miss" /\ StrictOutcome(text_patterns, 1, line) = "error"

\* The text branch raises: some line of the content does.
TextRaises(content, patterns) ==
    LET lines == SplitLines(content, <<>>)
    IN \E k \in 1..Len(lines) :
          LineRaises(lines[k], Get(patterns, "url_patterns"),
                     Get(patterns, "text_patterns"))

RECURSIVE clean_lines(_, _, _)
clean_lines(lines, url_patterns, text_patterns) ==
    IF lines = <<>> THEN <<>>
    ELSE (IF LineDropped(Head(lines), url_patterns, text_patterns)
          THEN <<>> ELSE <<Head(lines)>>)
         \o clean_lines(Tail(lines), url_patterns, text_patterns)

SanitizeText(content, patterns) ==
    Join(<<"\n">>, clean_lines(SplitLines(content, <<>>),
                               Get(patterns, "url_patterns"),
                               Get(patterns, "text_patterns")))

(***************************************************************************)
(* sanitize_content                                                        *)
(***************************************************************************)

\* An except clause that serialises the tree as far as the try block got
\* (result = str(soup)) instead of falling back to the content.
HtmlBranch_PartialTree(content, patterns) ==
    LET h == SanitizeHtml(content, patterns)
    IN [result |-> Serialize(h.soup),
        soup |-> h.soup, raised |-> h.raised, exc |-> FALSE]

\* The html branch: the serialised tree, or the content as it came when
\* the try block raised.
HtmlBranch(content, patterns) ==
    LET h == SanitizeHtml(content, patterns)
    IN [result |-> IF h.raised THEN content ELSE Serialize(h.soup),
        soup |-> h.soup, raised |-> h.raised, exc |-> FALSE]

\* The text branch; an exception in it ends the call (exc).
TextBranch(content, patterns) ==
    IF TextRaises(content, patterns)
    THEN [result |-> <<>>, soup |-> <<>>, raised |-> FALSE, exc |-> TRUE]
    ELSE [result |-> SanitizeText(content, patterns),
          soup |-> <<>>, raised |-> FALSE, exc |-> FALSE]

\* An else branch that gives up on a content type it does not know
\* (result = "").
OtherBranch_Empty(content) ==
    [result |-> <<>>, soup |-> <<>>, raised |-> FALSE, exc |-> FALSE]

\* Any other content type: result = content.
OtherBranch(content) ==
    [result |-> content, soup |-> <<>>, raised |-> FALSE, exc |-> FALSE]

\* A call that redacts the phrases first and hands the redacted content to
\* the branch.
sanitize_content_RedactFirst(content, content_type, patterns, env) ==
    IF content = <<>>
    THEN [result |-> <<>>, soup |-> <<>>, raised |-> FALSE, exc |-> FALSE]
    ELSE LET r == Redact(content, phrases_to_strip(env))
         IN IF content_type = "html" THEN HtmlBranch(r, patterns)
            ELSE IF content_type = "text" THEN TextBranch(r, patterns)
            ELSE OtherBranch(r)

\* The value returned, with the tree the html branch left (soup), whether
\* its try block raised, and whether the call itself ended in an exception
\* (exc; no value is returned then).
sanitize_content(content, content_type, patterns, env) ==
    IF content = <<>>
    THEN [result |-> <<>>, soup |-> <<>>, raised |-> FALSE, exc |-> FALSE]
    ELSE LET b == IF content_type = "html" THEN HtmlBranch(content, patterns)
                  ELSE IF content_type = "text" THEN TextBranch(content, patterns)
                  ELSE OtherBranch(content)
         IN IF b.exc THEN b
            ELSE [b EXCEPT !.result = Redact(b.result, phrases_to_strip(env))]

(***************************************************************************)
(* Inputs                                                                  *)
(***************************************************************************)

\* The longest input, in fragments.
MaxFrags == 3

TRACKED == <<"r", "s", "6", ".", "n", "e", "t", "/", "t", "n", ".", "j", "s", "p">>
PLAIN   == <<"x", ".", "g", "o", "v">>
KEYWORD == <<"U", "n", "s", "u", "b", "s", "c", "r", "i", "b", "e">>
NAME    == <<"T", "e", "d">>

Inputs(frags) ==
    { Concat(fs) : fs \in UNION { [1..n -> frags] : n \in 0..MaxFrags } }

\* Contents handed over with a content type that is neither html nor text.
OtherInputs == { <<>>, NAME, KEYWORD \o <<"\n">> \o NAME, TRACKED }

\* Values of PRIVACY_STRIP_PHRASES: unset, or the list ' ted ,,.n': a name
\* in another letter case than the content's, an empty entry, and a phrase
\* with a pattern-special character.
EnvValues == { <<>>, <<" ", "t", "e", "d", " ", ",", ",", ".", "n">> }

\* The pattern file: unreadable, the shipped patterns, the alternation.
ConfigFiles ==
    LET
        \* A pattern file whose text pattern lists its keywords in one alternation,
        \* 'unsubscribe|view.*browser'.
        AlternationPatterns ==
            [url_patterns |-> DefaultPatterns.url_patterns,
             text_patterns |->
                << <<"u", "n", "s", "u", "b", "s", "c", "r", "i", "b", "e", "|",
                     "v", "i", "e", "w", ".", "*", "b", "r", "o", "w", "s", "e", "r">> >>,
             selectors |-> DefaultPatterns.selectors]
    IN
        { <<>>, <<DefaultPatterns>>, <<AlternationPatterns>> }

(***************************************************************************)
(* The state machine                                                       *)
(***************************************************************************)

VARIABLES
    content,        \* the content handed to sanitize_content
    content_type,   \* 'html', 'text' or anything else
    file,           \* the pattern file on disk
    cache,          \* _PRIVACY_PATTERNS
    env,            \* os.environ['PRIVACY_STRIP_PHRASES']
    pc,             \* "start", "done" (sanitized), "again" (sanitized twice)
    result,         \* what the first call returned
    soup,           \* the tree the first call's html branch left
    raised,         \* the first call's try block raised
    result2,        \* what sanitizing `result` again returned
    calls,          \* concurrent calls: per thread its position, input,
                    \* the patterns it holds and what it returned
    seen,           \* the inbox: per message uid, whether it is flagged \Seen
    newsletters,    \* the newsletters table: the email_uid of each row
    run,            \* a run of process_new_newsletters: its position, the
                    \* messages it fetches, its counters and what it logged
    matching,       \* a call of _rule_matches_newsletter: the rule, the
                    \* newsletter data and what the call returned
    notification_queue, \* the notification_queue table: a set of rows
    queueing,       \* a call of queue_notifications: its position, its
                    \* locals, the inserts it attempted and what it logged
    llm_call,       \* a call of call_llm: its position, its arguments, the
                    \* prompts it sent, the waits it made and what became of it
    lookup,         \* a call of lookup_source_by_email: the sender address,
                    \* the rows of email_source_mappings and what it returned
    parsing,        \* a call of parse_newsletter: its position, the message's
                    \* html and text, its locals and what it returned
    user_profiles,  \* the user_profiles table: per user, whether the profile
                    \* exists and has notifications enabled
    digest,         \* a run of process_daily_digests: its position, its
                    \* arguments and locals, and the sends it attempted
    outbox,         \* the digests Resend accepted: recipient, batch and the
                    \* notifications each covers
    notification_history \* the notification_history table

sanitizerVars == <<content, content_type, file, cache, env, pc, result, soup,
                   raised, result2, calls>>

mailVars == <<seen, newsletters, run>>

\* The variables of the steps of the pipeline around the sanitizer.
pipelineVars ==
    <<matching, notification_queue, queueing, llm_call, lookup, parsing,
      user_profiles, digest, outbox, notification_history>>

vars == <<content, content_type, file, cache, env, pc, result, soup,
          raised, result2, calls, seen, newsletters, run, matching,
          notification_queue, queueing, llm_call, lookup, parsing,
          user_profiles, digest, outbox, notification_history>>

\* No mail is being processed.
NoMail == seen = <<>> /\ newsletters = <<>> /\ run = <<>>

\* No content is being sanitized.
NoSanitizer ==
    /\ content = <<>> /\ content_type = "html" /\ pc = "start"
    /\ file = <<>> /\ cache = <<>> /\ env = <<>>
    /\ result = <<>> /\ soup = <<>> /\ raised = FALSE /\ result2 = <<>>
    /\ calls = <<>>

\* Only the named step of the pipeline runs: the state of the others is
\* the idle one.  A digest run works on the queue table as well.
OthersIdle(step) ==
    /\ NoSanitizer /\ NoMail
    /\ IF step = "match" THEN TRUE ELSE matching = <<>>
    /\ IF step \in {"queue", "digest"} THEN TRUE ELSE notification_queue = {}
    /\ IF step = "queue" THEN TRUE ELSE queueing = <<>>
    /\ IF step = "llm" THEN TRUE ELSE llm_call = <<>>
    /\ IF step = "lookup" THEN TRUE ELSE lookup = <<>>
    /\ IF step = "parse" THEN TRUE ELSE parsing = <<>>
    /\ IF step = "digest" THEN TRUE
       ELSE /\ user_profiles = <<>> /\ digest = <<>> /\ outbox = <<>>
            /\ notification_history = <<>>

\* What the named step leaves alone.
OthersUnchanged(step) ==
    /\ UNCHANGED <<sanitizerVars, mailVars>>
    /\ IF step = "match" THEN TRUE ELSE UNCHANGED matching
    /\ IF step \in {"queue", "digest"} THEN TRUE
       ELSE UNCHANGED notification_queue
    /\ IF step = "queue" THEN TRUE ELSE UNCHANGED queueing
    /\ IF step = "llm" THEN TRUE ELSE UNCHANGED llm_call
    /\ IF step = "lookup" THEN TRUE ELSE UNCHANGED lookup
    /\ IF step = "parse" THEN TRUE ELSE UNCHANGED parsing
    /\ IF step = "digest" THEN UNCHANGED user_profiles
       ELSE UNCHANGED <<user_profiles, digest, outbox, notification_history>>

\* None of the steps of the pipeline is running.
NoPipeline ==
    /\ matching = <<>> /\ notification_queue = {} /\ queueing = <<>>
    /\ llm_call = <<>> /\ lookup = <<>> /\ parsing = <<>>
    /\ user_profiles = <<>> /\ digest = <<>> /\ outbox = <<>>
    /\ notification_history = <<>>

Init ==
    LET
        \* The pieces HTML inputs are made of: tags opened and closed in any order
        \* (real newsletter markup is often malformed), a tracked and an ordinary
        \* link, an image, a tracked image link, a keyword and a name.
        HtmlFrags ==
            { <<AHREF>> \o TRACKED \o <<HREFEND>>,
              <<AHREF>> \o PLAIN \o <<HREFEND>>,
              <<"</a>">>,
              <<"<img>">>,
              <<AHREF>> \o TRACKED \o <<HREFEND, "<img>", "</a>">>,
              KEYWORD,
              NAME,
              <<"<div class=\"unsubscribe\">">>,
              <<"</div>">> }
        \* The pieces plain-text inputs are made of.
        TextFrags == { KEYWORD, NAME, <<" ">>, <<"\n">>, <<"\r", "\n">>, TRACKED }
    IN
        /\ content_type \in {"html", "text", "markdown"}
        /\ content \in IF content_type = "html" THEN Inputs(HtmlFrags)
                       ELSE IF content_type = "text" THEN Inputs(TextFrags)
                       ELSE OtherInputs
        /\ file \in ConfigFiles
        /\ cache = <<>>
        /\ env \in EnvValues
        /\ pc = "start"
        /\ result = <<>>
        /\ soup = <<>>
        /\ raised = FALSE
        /\ result2 = <<>>
        /\ calls = <<>>
        /\ NoMail
        /\ NoPipeline

\* The patterns a call works with.
patterns == load_privacy_patterns(cache, file)

\* parse_newsletter / process_single_newsletter: the content is sanitized.
\* A call that ends in an exception returns nothing (pc "failed"); a call
\* with empty content returns before the patterns are loaded.
Sanitize ==
    /\ pc = "start"
    /\ \E r \in {sanitize_content(content, content_type, patterns, env)} :
          /\ result' = r.result
          /\ soup' = r.soup
          /\ raised' = r.raised
          /\ pc' = IF r.exc THEN "failed" ELSE "done"
    /\ cache' = IF content = <<>> THEN cache ELSE <<patterns>>
    /\ UNCHANGED <<content, content_type, file, env, result2, calls>>
    /\ UNCHANGED mailVars
    /\ UNCHANGED pipelineVars

\* reprocess_newsletters_privacy: stored, already sanitized content is
\* sanitized again.
Resanitize ==
    /\ pc = "done"
    /\ \E r \in {sanitize_content(result, content_type, patterns, env)} :
          /\ result2' = r.result
          /\ pc' = IF r.exc THEN "failed" ELSE "again"
    /\ cache' = IF result = <<>> THEN cache ELSE <<patterns>>
    /\ UNCHANGED <<content, content_type, file, env, result, soup, raised,
                   calls>>
    /\ UNCHANGED mailVars
    /\ UNCHANGED pipelineVars

Next == Sanitize \/ Resanitize

Spec == Init /\ [][Next]_vars

(***************************************************************************)
(* The same calls under a pattern file that may be unreadable or invalid   *)
(* and may change between two calls of one process.                        *)
(***************************************************************************)

ConfigStates == { <<>>, <<DefaultPatterns>>, <<InvalidPatterns>> }

InitConfig ==
    LET
        \* The pieces of the inputs of this view: a tracked and an ordinary link,
        \* a footer container and a name; a keyword, a tracked URL, a name and a
        \* line break.
        ConfigHtmlFrags ==
            { <<AHREF>> \o TRACKED \o <<HREFEND>>,
              <<AHREF>> \o PLAIN \o <<HREFEND>>,
              <<"<div class=\"unsubscribe\">">>,
              NAME }
        ConfigTextFrags == { KEYWORD, TRACKED, NAME, <<"\n">> }
    IN
        /\ content_type \in {"html", "text", "markdown"}
        /\ content \in IF content_type = "html" THEN Inputs(ConfigHtmlFrags)
                       ELSE IF content_type = "text" THEN Inputs(ConfigTextFrags)
                       ELSE OtherInputs
        /\ file \in ConfigStates
        /\ cache = <<>>
        /\ env \in EnvValues
        /\ pc = "start"
        /\ result = <<>>
        /\ soup = <<>>
        /\ raised = FALSE
        /\ result2 = <<>>
        /\ calls = <<>>
        /\ NoMail
        /\ NoPipeline

\* Between two calls the operator repairs, breaks or replaces the file.
ConfigChanged ==
    /\ pc = "done"
    /\ file' \in ConfigStates \ {file}
    /\ UNCHANGED <<content, content_type, cache, env, pc, result, soup,
                   raised, result2, calls>>
    /\ UNCHANGED mailVars
    /\ UNCHANGED pipelineVars

NextConfig == Sanitize \/ ConfigChanged \/ Resanitize

SpecConfig == InitConfig /\ [][NextConfig]_vars

\* What load_privacy_patterns gives a process that has made no call yet.
FreshPatterns == load_privacy_patterns(<<>>, file)

(***************************************************************************)
(* Concurrent calls: threads of one process call sanitize_content, each on *)
(* its own input.  They share the module global _PRIVACY_PATTERNS; a       *)
(* thread can be preempted between any two accesses to it.                 *)
(***************************************************************************)

\* The number of threads.
NThreads == 2

Threads == 1..NThreads

InitCalls ==
    LET
        \* What the threads are given: a tracked link with a name, a footer
        \* container, a keyword line and a name, a tracked URL of another type.
        CallInputs ==
            { [content |-> <<AHREF>> \o TRACKED \o <<HREFEND>> \o NAME \o <<"</a>">>,
               content_type |-> "html"],
              [content |-> <<"<div class=\"unsubscribe\">">> \o NAME \o <<"</div>">>,
               content_type |-> "html"],
              [content |-> KEYWORD \o <<"\n">> \o NAME, content_type |-> "text"],
              [content |-> TRACKED, content_type |-> "markdown"] }
    IN
        /\ calls \in [Threads -> {[pc |-> "check", content |-> i.content,
                                    content_type |-> i.content_type,
                                    patterns |-> <<>>, out |-> <<>>] :
                                   i \in CallInputs}]
        /\ file \in ConfigFiles
        /\ cache = <<>>
        /\ env \in EnvValues
        /\ content = <<>> /\ content_type = "html" /\ pc = "start"
        /\ result = <<>> /\ soup = <<>> /\ raised = FALSE /\ result2 = <<>>
        /\ NoMail
        /\ NoPipeline

\* load_privacy_patterns, line 14: the thread reads the global; when it is
\* set the thread returns it at once.
CallCheck(t) ==
    /\ calls[t].pc = "check"
    /\ calls' = [calls EXCEPT ![t].pc = IF cache # <<>> THEN "run" ELSE "load",
                              ![t].patterns = cache]
    /\ UNCHANGED <<content, content_type, file, cache, env, pc, result, soup,
                   raised, result2>>
    /\ UNCHANGED mailVars
    /\ UNCHANGED pipelineVars

\* Lines 17-23: the thread found the global unset; it reads the file and
\* stores what it got, or the fallback, in the global.
CallLoad(t) ==
    /\ calls[t].pc = "load"
    /\ cache' = <<load_privacy_patterns(<<>>, file)>>
    /\ calls' = [calls EXCEPT ![t].pc = "return"]
    /\ UNCHANGED <<content, content_type, file, env, pc, result, soup,
                   raised, result2>>
    /\ UNCHANGED mailVars
    /\ UNCHANGED pipelineVars

\* Line 25: the thread returns what the global holds now.
CallReturn(t) ==
    /\ calls[t].pc = "return"
    /\ calls' = [calls EXCEPT ![t].pc = "run", ![t].patterns = cache]
    /\ UNCHANGED <<content, content_type, file, cache, env, pc, result, soup,
                   raised, result2>>
    /\ UNCHANGED mailVars
    /\ UNCHANGED pipelineVars

\* Lines 35-117: the rest of the call works on the thread's own tree and
\* strings and reads the patterns it was given.
CallRun(t) ==
    /\ calls[t].pc = "run"
    /\ calls' = [calls EXCEPT
                   ![t].pc = "done",
                   ![t].out = sanitize_content(calls[t].content,
                                               calls[t].content_type,
                                               calls[t].patterns[1], env).result]
    /\ UNCHANGED <<content, content_type, file, cache, env, pc, result, soup,
                   raised, result2>>
    /\ UNCHANGED mailVars
    /\ UNCHANGED pipelineVars

NextCalls ==
    \E t \in Threads : CallCheck(t) \/ CallLoad(t) \/ CallReturn(t) \/ CallRun(t)

SpecCalls == InitCalls /\ [][NextCalls]_vars

(***************************************************************************)
(* process_new_newsletters: runs over the unread messages of the inbox.    *)
(***************************************************************************)

\* The number of messages in the inbox.
MaxMessages == 2

Uids == 1..MaxMessages

RECURSIVE Unseen(_, _)
\* mailbox.fetch(AND(seen=False)): the uids of the unread messages, from
\* uid u on, in the order of the inbox.
Unseen(flags, u) ==
    IF u > MaxMessages THEN <<>>
    ELSE (IF flags[u] THEN <<>> ELSE <<u>>) \o Unseen(flags, u + 1)

\* A check that never finds a row (a query on the wrong column).
newsletter_exists_Never(rows, email_uid) == FALSE

\* newsletter_exists: some row of the table has this email_uid.
newsletter_exists(rows, email_uid) ==
    \E k \in 1..Len(rows) : rows[k] = email_uid

\* A process at rest, with its ENABLE_LLM and ENABLE_NOTIFICATIONS.
IdleRun(llm, notifications) ==
    [pc |-> "idle", messages |-> <<>>, i |-> 0,
     processed_count |-> 0, skipped_count |-> 0, unmapped_count |-> 0,
     log |-> [u \in Uids |-> "none"], warned |-> {},
     ENABLE_LLM |-> llm, ENABLE_NOTIFICATIONS |-> notifications]

InitMail ==
    /\ seen = [u \in Uids |-> FALSE]
    /\ newsletters = <<>>
    /\ run \in {IdleRun(l, n) : l \in BOOLEAN, n \in BOOLEAN}
    /\ content = <<>> /\ content_type = "html" /\ pc = "start"
    /\ file = <<>> /\ cache = <<>> /\ env = <<>>
    /\ result = <<>> /\ soup = <<>> /\ raised = FALSE /\ result2 = <<>>
    /\ calls = <<>>
    /\ NoPipeline

\* The message the loop is at.
Msg == run.messages[run.i]

\* Lines 108-120: a run starts; the unread messages are searched for and the
\* counters are zero.
StartRun ==
    /\ run.pc \in {"idle", "ended"}
    /\ run' = [IdleRun(run.ENABLE_LLM, run.ENABLE_NOTIFICATIONS) EXCEPT
                  !.pc = "fetch", !.messages = Unseen(seen, 1)]
    /\ UNCHANGED <<seen, newsletters>>
    /\ UNCHANGED sanitizerVars
    /\ UNCHANGED pipelineVars

\* Line 122: the loop takes the next message from mailbox.fetch, which
\* fetches the messages one by one as the loop asks for them.  fetch is
\* called without mark_seen=False, so the server flags the message \Seen
\* as its body is fetched.
FetchNext ==
    /\ run.pc = "fetch"
    /\ run.i < Len(run.messages)
    /\ seen' = [seen EXCEPT ![run.messages[run.i + 1]] = TRUE]
    /\ run' = [run EXCEPT !.i = run.i + 1, !.pc = "exists"]
    /\ UNCHANGED newsletters
    /\ UNCHANGED sanitizerVars
    /\ UNCHANGED pipelineVars

\* Lines 213-216: the loop is over; the report and the summary are written.
EndRun ==
    /\ run.pc = "fetch"
    /\ run.i = Len(run.messages)
    /\ run' = [run EXCEPT !.pc = "ended"]
    /\ UNCHANGED <<seen, newsletters>>
    /\ UNCHANGED sanitizerVars
    /\ UNCHANGED pipelineVars

\* Lines 209-211: an exception at step `at` of the current message is
\* printed and the loop goes on to the next message.
Caught(r, at) == [r EXCEPT !.log[Msg] = "error: " \o at, !.pc = "fetch"]

\* Lines 125-128: the duplicate check; the query can fail.
CheckExists ==
    /\ run.pc = "exists"
    /\ \/ run' = Caught(run, "newsletter_exists")
       \/ /\ newsletter_exists(newsletters, Msg)
          /\ run' = [run EXCEPT !.skipped_count = run.skipped_count + 1,
                                !.log[Msg] = "duplicate", !.pc = "fetch"]
       \/ /\ ~newsletter_exists(newsletters, Msg)
          /\ run' = [run EXCEPT !.pc = "parse"]
    /\ UNCHANGED <<seen, newsletters>>
    /\ UNCHANGED sanitizerVars
    /\ UNCHANGED pipelineVars

\* Lines 132-148: parse_newsletter raises, or finds no source for the
\* sender (the message is counted, reported and flagged), or returns a
\* newsletter with its source.
ParseMessage ==
    /\ run.pc = "parse"
    /\ \/ run' = Caught(run, "parse_newsletter") /\ UNCHANGED seen
       \/ /\ run' = Caught([run EXCEPT !.unmapped_count = run.unmapped_count + 1],
                            "flag")
          /\ UNCHANGED seen
       \/ /\ run' = [run EXCEPT !.unmapped_count = run.unmapped_count + 1,
                                !.log[Msg] = "unmapped", !.pc = "fetch"]
          /\ seen' = [seen EXCEPT ![Msg] = TRUE]
       \/ run' = [run EXCEPT !.pc = "llm"] /\ UNCHANGED seen
    /\ UNCHANGED newsletters
    /\ UNCHANGED sanitizerVars
    /\ UNCHANGED pipelineVars

\* Lines 151-162: with ENABLE_LLM the newsletter goes through the LLM; a
\* failure there is printed as a warning and the newsletter goes on.
Llm ==
    /\ run.pc = "llm"
    /\ \/ run' = [run EXCEPT !.pc = "insert"]
       \/ /\ run.ENABLE_LLM
          /\ run' = [run EXCEPT !.pc = "insert",
                                !.warned = run.warned \cup {Msg}]
    /\ UNCHANGED <<seen, newsletters>>
    /\ UNCHANGED sanitizerVars
    /\ UNCHANGED pipelineVars

\* Lines 165-167: the row is inserted, or the insert raises.
Insert ==
    /\ run.pc = "insert"
    /\ \/ run' = Caught(run, "insert") /\ UNCHANGED newsletters
       \/ /\ Len(newsletters) <= MaxMessages
          /\ newsletters' = Append(newsletters, Msg)
          /\ run' = [run EXCEPT !.pc = "notify"]
    /\ UNCHANGED seen
    /\ UNCHANGED sanitizerVars
    /\ UNCHANGED pipelineVars

\* Lines 170-201: with ENABLE_NOTIFICATIONS the rules are matched and the
\* notifications queued; a failure there is printed as a warning.
Notify ==
    /\ run.pc = "notify"
    /\ \/ run' = [run EXCEPT !.pc = "flag"]
       \/ /\ run.ENABLE_NOTIFICATIONS
          /\ run' = [run EXCEPT !.pc = "flag",
                                !.warned = run.warned \cup {Msg}]
    /\ UNCHANGED <<seen, newsletters>>
    /\ UNCHANGED sanitizerVars
    /\ UNCHANGED pipelineVars

\* Lines 204-207: the message is flagged as read and counted as processed;
\* the flag command can fail.
Flag ==
    /\ run.pc = "flag"
    /\ \/ run' = Caught(run, "flag") /\ UNCHANGED seen
       \/ /\ seen' = [seen EXCEPT ![Msg] = TRUE]
          /\ run' = [run EXCEPT !.processed_count = run.processed_count + 1,
                                !.log[Msg] = "stored", !.pc = "fetch"]
    /\ UNCHANGED newsletters
    /\ UNCHANGED sanitizerVars
    /\ UNCHANGED pipelineVars

\* Between two runs the owner of the inbox marks a message as unread.
MarkUnread ==
    /\ run.pc \in {"idle", "ended"}
    /\ \E u \in Uids :
          /\ seen[u]
          /\ seen' = [seen EXCEPT ![u] = FALSE]
    /\ run' = IdleRun(run.ENABLE_LLM, run.ENABLE_NOTIFICATIONS)
    /\ UNCHANGED newsletters
    /\ UNCHANGED sanitizerVars
    /\ UNCHANGED pipelineVars

NextMail ==
    \/ StartRun \/ FetchNext \/ EndRun \/ CheckExists \/ ParseMessage
    \/ Llm \/ Insert \/ Notify \/ Flag \/ MarkUnread

SpecMail == InitMail /\ [][NextMail]_vars

(***************************************************************************)
(* What the claims speak about                                             *)
(***************************************************************************)

UrlPatterns  == Get(patterns, "url_patterns")
TextPatterns == Get(patterns, "text_patterns")
Selectors    == Get(patterns, "selectors")
Phrases      == phrases_to_strip(env)

Sanitized == pc # "start"

\* The input of an HTML call as the claims see it:
\*   t0        the input as parsed,
\*   t1        the tree as it is when link evaluation starts,
\*   selected  the nodes that are, or lie inside, an element of the input
\*             some selector matches,
\*   links     the anchors link evaluation looks at,
\*   matched   those a URL pattern (href) or a text pattern (rendered text)
\*             matches,
\*   media     those that hold an img, picture or svg.
View ==
    LET t0 == Parse(content)
        t1 == RemoveSelected(t0, Selectors)
        links == Anchors(t1)
    IN [t0 |-> t0,
        t1 |-> t1,
        selected |-> UNION { Subtree(t0, m) :
                        m \in UNION { Select(t0, Selectors[k]) :
                                        k \in 1..Len(Selectors) } },
        links |-> links,
        urlMatched |-> {a \in links : AnySearch(UrlPatterns, t1[a].href)},
        textMatched |-> {a \in links : AnySearch(TextPatterns, get_text(t1, a))},
        media |-> {a \in links : HasMedia(t1, a)}]

Matched(v) == v.urlMatched \cup v.textMatched

\* The nodes of the subtree of a that link evaluation finds in the tree.
Inside(v, a) == Subtree(v.t1, a) \cap InTree(v.t1)

\* Node j of the input is part of what the first call returned: of the
\* serialized tree, or of the original content when the try block raised.
InOutput(j) == raised \/ ~soup[j].gone

\* Node j is, or lies inside, a matched anchor.
InMatchedLink(v, j) ==
    \E a \in Matched(v) : j = a \/ IsUnder(v.t1, j, a)

\* Node j is, or lies inside, a matched anchor nested in anchor a.
InNestedMatched(v, j, a) ==
    \E b \in Matched(v) :
        b # a /\ IsUnder(v.t1, b, a) /\ (j = b \/ IsUnder(v.t1, j, b))

\* Anchor a lies inside an anchor that link evaluation removes.
InsideRemovedLink(v, a) ==
    \E b \in Matched(v) \ v.media : IsUnder(v.t1, a, b)

\* needle occurs in hay, character for character.
Contains(hay, needle) ==
    \E p \in 1..(Len(hay) - Len(needle) + 1) :
        \A k \in 1..Len(needle) : hay[p + k - 1] = needle[k]

\* The whole of s is one match of pattern p (the pattern anchored at both
\* ends).
FullMatch(p, s) ==
    LET alts == Alternatives(p)
    IN \E k \in 1..Len(alts) : (Len(s) + 1) \in Ends(alts[k], 1, s, 1)

\* s without its whitespace.
Unspaced(s) ==
    LET Kept(c) == c \notin Whitespace
    IN SelectSeq(s, Kept)

(***************************************************************************)
(* C1 .. C10                                                               *)
(***************************************************************************)

\* C1: in HTML mode every element a selector matches is deleted with its
\* whole subtree before links are evaluated, so none of its nodes is in the
\* output, and that step deletes nothing else.
C1_SelectorRemovalTotal ==
    (Sanitized /\ content_type = "html") =>
        LET v == View IN
        \A j \in 1..Len(v.t0) :
            /\ j \in v.selected => ~InOutput(j)
            /\ j \notin v.selected => ~v.t1[j].gone

\* C2: in HTML mode an anchor with a non-empty href that a URL pattern
\* (href) or a text pattern (rendered text) matches and that holds no image
\* is removed with all its descendants.
C2_MatchedTextLinkRemoved ==
    (Sanitized /\ content_type = "html") =>
        LET v == View IN
        \A a \in Matched(v) \ v.media :
            v.t1[a].href # <<>> => \A j \in Subtree(v.t1, a) : ~InOutput(j)

\* C3: in HTML mode an anchor whose href a URL pattern matches, whose
\* rendered text no text pattern matches and that holds no image is
\* stripped while its text stays in the output.
C3_TrackedLinkTextKept ==
    (Sanitized /\ content_type = "html") =>
        LET v == View IN
        \A a \in (v.urlMatched \ v.textMatched) \ v.media :
            /\ ~InOutput(a)
            /\ \A j \in Inside(v, a) : v.t1[j].kind = "text" => InOutput(j)

\* C4: in HTML mode a matched anchor that holds an image is unwrapped: the
\* anchor is not in the output and what it contained is (matched anchors
\* nested in it have their own disposition).  Document order is the order
\* of the node indices, which no operation changes.
C4_MediaLinkUnwrapped ==
    (Sanitized /\ content_type = "html") =>
        LET v == View IN
        \A a \in Matched(v) \cap v.media :
            /\ ~InOutput(a)
            /\ \A j \in Inside(v, a) \ {a} :
                  ~InNestedMatched(v, j, a) => InOutput(j)

\* C5 as stated: in HTML mode an anchor of the input with a non-empty href
\* that no URL pattern and no text pattern matches is left untouched with
\* all it contains, whatever else the document holds.
C5_UnmatchedLinkUntouched ==
    (Sanitized /\ content_type = "html") =>
        LET t0 == Parse(content) IN
        \A a \in Anchors(t0) :
            (/\ t0[a].href # <<>>
             /\ ~AnySearch(UrlPatterns, t0[a].href)
             /\ ~AnySearch(TextPatterns, get_text(t0, a))) =>
                \A j \in Subtree(t0, a) : InOutput(j)

\* C5 as amended: an unmatched anchor with a non-empty href that lies
\* outside every selector-matched element and outside every removed anchor
\* is in the output with its href, and so is all it contains except matched
\* anchors nested in it.
C5_UnmatchedLinkKept ==
    (Sanitized /\ content_type = "html") =>
        LET v == View IN
        \A a \in v.links \ Matched(v) :
            (v.t1[a].href # <<>> /\ ~InsideRemovedLink(v, a)) =>
                /\ InOutput(a)
                /\ ~raised => soup[a].href = v.t0[a].href
                /\ \A j \in Inside(v, a) :
                      ~InNestedMatched(v, j, a) => InOutput(j)

\* C5 witness: a call that kept an unmatched link while it removed a matched
\* one from the same document.
C5_Witness ==
    /\ Sanitized /\ content_type = "html" /\ ~raised
    /\ LET v == View IN
         /\ \E a \in v.links \ Matched(v) :
               /\ v.t1[a].href # <<>> /\ ~InsideRemovedLink(v, a)
               /\ ~soup[a].gone
         /\ \E b \in Matched(v) : soup[b].gone

\* C6: in HTML mode the patterns act on anchors only: a node outside every
\* selector-matched element and outside every matched anchor is in the
\* output unchanged, whatever its text says.
C6_OnlyLinksAreMatched ==
    (Sanitized /\ content_type = "html") =>
        LET v == View IN
        \A j \in 1..Len(v.t0) :
            (j \notin v.selected /\ ~InMatchedLink(v, j)) =>
                /\ InOutput(j)
                /\ ~raised =>
                      /\ soup[j].text = v.t0[j].text
                      /\ soup[j].open = v.t0[j].open
                      /\ soup[j].href = v.t0[j].href
                /\ (Phrases = <<>> /\ v.t0[j].kind = "text") =>
                      Contains(result, v.t0[j].text)

\* C6 witness: a keyword in plain prose survived a call that removed a
\* matched link.
C6_Witness ==
    /\ Sanitized /\ content_type = "html" /\ ~raised /\ Phrases = <<>>
    /\ LET v == View IN
         /\ \E j \in 1..Len(v.t0) :
               /\ v.t0[j].kind = "text"
               /\ j \notin v.selected /\ ~InMatchedLink(v, j)
               /\ AnySearch(TextPatterns, v.t0[j].text)
               /\ Contains(result, v.t0[j].text)
         /\ \E b \in Matched(v) : soup[b].gone

\* The line is dropped by the rule C7 states.
DropRule(line) ==
    \/ AnySearch(UrlPatterns, line)
    \/ \E k \in 1..Len(TextPatterns) : FullMatch(TextPatterns[k], Strip(line))

RECURSIVE KeptByRule(_)
KeptByRule(lines) ==
    IF lines = <<>> THEN <<>>
    ELSE (IF DropRule(Head(lines)) THEN <<>> ELSE <<Head(lines)>>)
         \o KeptByRule(Tail(lines))

\* C7: in text mode a line is dropped exactly when a URL pattern is found in
\* it or the whole trimmed line is a match of a text pattern, for every
\* text pattern.
C7_LineDroppedIffRule ==
    (Sanitized /\ content_type = "text" /\ content # <<>> /\ Phrases = <<>>) =>
        result = Join(<<"\n">>, KeptByRule(SplitLines(content, <<>>)))

\* C8: the returned string holds no occurrence, in any letter case, of any
\* trimmed non-empty redaction phrase.
C8_NoPhraseInOutput ==
    Sanitized =>
        \A k \in 1..Len(Phrases) : ~ContainsCI(result, Phrases[k])

\* C9: sanitizing twice gives the same string as sanitizing once.
C9_Idempotent ==
    (pc = "again") => result2 = result

\* Nothing in the content is matched by the pattern set.
NothingMatches ==
    IF content_type = "html" THEN
        LET t0 == Parse(content) IN
        /\ \A k \in 1..Len(Selectors) : Select(t0, Selectors[k]) = {}
        /\ \A a \in Anchors(t0) :
              /\ ~AnySearch(UrlPatterns, t0[a].href)
              /\ ~AnySearch(TextPatterns, get_text(t0, a))
    ELSE LET lines == SplitLines(content, <<>>) IN
         \A k \in 1..Len(lines) : ~DropRule(lines[k])

\* C10: when nothing matches and the phrase list is empty the content comes
\* back as it was: character for character in text mode, up to whitespace
\* in HTML mode.
C10_NonMatchingUnchanged ==
    (Sanitized /\ Phrases = <<>> /\ NothingMatches) =>
        IF content_type = "html" THEN Unspaced(result) = Unspaced(content)
        ELSE result = content

(***************************************************************************)
(* Failures, configuration and repeated calls (SpecConfig)                 *)
(***************************************************************************)

\* Every pattern of the set compiles, as it stands and wrapped for a line.
AllCompile(pats) ==
    /\ \A k \in 1..Len(Get(pats, "url_patterns")) :
          CompileOk(Get(pats, "url_patterns")[k])
    /\ \A k \in 1..Len(Get(pats, "text_patterns")) :
          /\ CompileOk(Get(pats, "text_patterns")[k])
          /\ CompileOk(strict_pattern(Get(pats, "text_patterns")[k]))

\* C11: in HTML mode a call never ends in an exception, and when parsing,
\* selector removal or link evaluation raised, what the sanitizer hands on
\* is the complete original content: no removal made before the failure
\* shows (the phrases are redacted in it as in any result).
C11_FallbackToOriginal ==
    (content_type = "html" /\ pc # "start") =>
        /\ pc # "failed"
        /\ raised => /\ result = Redact(content, Phrases)
                     /\ (Phrases = <<>> => result = content)

\* A footer container inside a link was removed, then evaluating the link
\* raised on the invalid pattern, and the original came back.
C11_Witness ==
    /\ content_type = "html" /\ pc = "done" /\ raised
    /\ ~AllCompile(patterns)
    /\ \E j \in 1..Len(soup) : soup[j].gone /\ soup[j].cls = "unsubscribe"
    /\ Phrases = <<>> /\ result = content

\* C15: a pattern set with an invalid regular expression is refused when it
\* is loaded, so no call works with such a set and swallows the error in
\* its try block, returning the content unsanitized.
C15_InvalidRegexSurfaced ==
    ~(/\ pc # "start"
      /\ cache # <<>> /\ ~AllCompile(cache[1])
      /\ raised /\ result = Redact(content, Phrases))

(***************************************************************************)
(* Text mode: lines and separators                                         *)
(***************************************************************************)

RECURSIVE KeepEnds(_, _)
\* The lines of s, each with the line break that ends it in s.
KeepEnds(s, cur) ==
    LET ends == {k \in 1..Len(s) : s[k] \in {"\n", "\r"}}
    IN IF ends = {} THEN (IF cur \o s = <<>> THEN <<>> ELSE <<cur \o s>>)
       ELSE LET k == CHOOSE k \in ends : \A j \in ends : k <= j
                e == IF s[k] = "\r" /\ k < Len(s) /\ s[k + 1] = "\n"
                     THEN k + 1 ELSE k
            IN <<cur \o SubSeq(s, 1, e)>>
               \o KeepEnds(SubSeq(s, e + 1, Len(s)), <<>>)

\* A line without the line break that ends it.
Chomp(line) ==
    LET n == Len(line)
    IN IF n >= 2 /\ line[n - 1] = "\r" /\ line[n] = "\n" THEN SubSeq(line, 1, n - 2)
       ELSE IF n >= 1 /\ line[n] \in {"\n", "\r"} THEN SubSeq(line, 1, n - 1)
       ELSE line

RECURSIVE Survivors(_)
\* The lines the loop keeps, each with its own line break, in their order.
Survivors(lines) ==
    IF lines = <<>> THEN <<>>
    ELSE (IF LineDropped(Chomp(Head(lines)), UrlPatterns, TextPatterns)
          THEN <<>> ELSE Head(lines))
         \o Survivors(Tail(lines))

\* C12: in text mode the output is the surviving lines, unchanged and in
\* their order, separated as they were in the input: CRLF stays CRLF and a
\* final line break stays.
C12_SeparatorsKept ==
    (content_type = "text" /\ pc = "done" /\ Phrases = <<>>) =>
        result = Survivors(KeepEnds(content, <<>>))

(***************************************************************************)
(* Phrase redaction                                                        *)
(***************************************************************************)

\* The result of the branch taken, before the phrases are redacted.
Unredacted ==
    IF content_type = "html"
    THEN (IF raised THEN content ELSE Serialize(soup))
    ELSE IF content_type = "text" THEN SanitizeText(content, patterns)
    ELSE content

\* The phrase stands at position pos of s, letter case aside.
OccursAt(phrase, s, pos) ==
    /\ pos + Len(phrase) - 1 <= Len(s)
    /\ \A i \in 1..Len(phrase) : Lower(s[pos + i - 1]) = Lower(phrase[i])

RECURSIVE LiteralReplace(_, _, _)
\* s from pos on, each occurrence of the phrase, leftmost first and not
\* overlapping, replaced by one marker; everything else as it is.
LiteralReplace(phrase, s, pos) ==
    LET at == {p \in pos..Len(s) : OccursAt(phrase, s, p)}
    IN IF at = {} THEN SubSeq(s, pos, Len(s))
       ELSE LET p == CHOOSE p \in at : \A q \in at : p <= q
            IN SubSeq(s, pos, p - 1) \o REDACTED
               \o LiteralReplace(phrase, s, p + Len(phrase))

RECURSIVE LiteralRedact(_, _)
\* The phrases in their order, each replaced literally.
LiteralRedact(s, phrases) ==
    IF phrases = <<>> THEN s
    ELSE LiteralRedact(LiteralReplace(Head(phrases), s, 1), Tail(phrases))

\* C13: redaction takes each phrase as literal text: what is returned is
\* the branch's result with every occurrence of each phrase (letter case
\* aside, leftmost first, not overlapping) replaced by one marker and all
\* other text unchanged; without phrases it is the branch's result itself.
C13_PhrasesAreLiteral ==
    (pc = "done") =>
        /\ result = LiteralRedact(Unredacted, Phrases)
        /\ (Phrases = <<>> => result = Unredacted)

\* The phrase '.n' was redacted where it stands ('rs6.net') and 'Un', which
\* the unescaped pattern would match, is still there.
C13_Witness ==
    /\ pc = "done"
    /\ \E k \in 1..Len(Phrases) : Phrases[k] = <<".", "n">>
    /\ Contains(Unredacted, <<".", "n">>)
    /\ Contains(result, <<"U", "n">>)
    /\ Contains(result, REDACTED)
    /\ ~Contains(result, <<".", "n">>)

(***************************************************************************)
(* Other content types                                                     *)
(***************************************************************************)

\* C14: content that is not empty, handed over with a content type other
\* than 'html' and 'text', comes back with nothing removed by a URL
\* pattern, a text pattern or a selector: it is the content with the
\* phrases redacted, and the content itself when there are no phrases.
C14_OtherTypesOnlyRedacted ==
    (content_type \notin {"html", "text"} /\ content # <<>> /\ pc # "start") =>
        /\ pc # "failed"
        /\ result = LiteralRedact(content, Phrases)
        /\ (Phrases = <<>> => result = content)

\* A tracked URL, which text mode would drop as a line, came back whole.
C14_Witness ==
    /\ content_type \notin {"html", "text"} /\ pc = "done"
    /\ AnySearch(UrlPatterns, content)
    /\ Phrases = <<>> /\ result = content /\ content # <<>>

(***************************************************************************)
(* State between calls                                                     *)
(***************************************************************************)

\* C16: a call's output is a function of its content, content type, pattern
\* set and phrases alone: whatever calls the process made before, and
\* whether loading the patterns failed in one of them, the call returns what
\* a process that has made no call returns for the same inputs.
C16_NoStateBetweenCalls ==
    (pc = "again") =>
        LET alone == sanitize_content(result, content_type, FreshPatterns, env)
        IN ~alone.exc /\ result2 = alone.result

(***************************************************************************)
(* Concurrent calls (SpecCalls)                                            *)
(***************************************************************************)

\* The pattern set the threads share: the file's, or the fallback when the
\* file cannot be read.
SharedPatterns == IF file = <<>> THEN FallbackPatterns ELSE file[1]

\* What thread t's call returns when it is the only call of the process.
Alone(t) ==
    LET b == IF calls[t].content_type = "html"
             THEN HtmlBranch(calls[t].content, SharedPatterns)
             ELSE IF calls[t].content_type = "text"
             THEN TextBranch(calls[t].content, SharedPatterns)
             ELSE OtherBranch(calls[t].content)
    IN LiteralRedact(b.result, Phrases)

\* C17: however the calls of the threads interleave, each returns what it
\* returns when run alone, and the pattern set they share is afterwards
\* what it was.
C17_ConcurrentCallsIndependent ==
    /\ \A t \in DOMAIN calls : calls[t].pc = "done" => calls[t].out = Alone(t)
    /\ cache # <<>> => cache[1] = SharedPatterns

\* Two threads found the global unset and both loaded the file; one has
\* finished its call, which removed something, while the other has stored
\* its own copy over the first's and is about to return it.
C17_Witness ==
    /\ file # <<>>
    /\ \E t, u \in DOMAIN calls :
          /\ calls[t].pc = "done" /\ calls[t].out # calls[t].content
          /\ calls[u].pc = "return"

(***************************************************************************)
(* Runs of process_new_newsletters (SpecMail)                              *)
(***************************************************************************)

\* The run handled the message without an exception.
Handled(u) == run.log[u] \in {"stored", "unmapped", "duplicate"}

\* The run met an exception while it processed the message.
Failed(u) == run.log[u] \notin {"none", "stored", "unmapped", "duplicate"}

\* C18: over any sequence of runs, failures included, a message whose
\* email_uid has a row is skipped as a duplicate without an insert, and the
\* table never holds two rows with the same email_uid.
C18_NoDuplicateRows ==
    run # <<>> =>
        /\ \A j, k \in 1..Len(newsletters) :
              newsletters[j] = newsletters[k] => j = k
        /\ (run.pc \in {"parse", "llm", "insert"} =>
              \A k \in 1..Len(newsletters) : newsletters[k] # Msg)

\* A message that had been stored and was unread again was fetched by a
\* later run and skipped as a duplicate; its row is the only one.
C18_Witness ==
    /\ run # <<>>
    /\ \E u \in Uids : run.log[u] = "duplicate" /\ newsletter_exists(newsletters, u)

\* A row is inserted by this step while its message is already flagged.
FlaggedBeforeInsert ==
    /\ Len(newsletters') = Len(newsletters) + 1
    /\ seen[newsletters'[Len(newsletters')]]

\* C19: at the end of a run every message the run handled without an
\* exception (stored, unmapped or skipped as a duplicate) is flagged as
\* read, and a message that is stored is flagged only after its row was
\* inserted: no row is inserted for a message that is flagged already.
C19_FlaggedAfterHandling ==
    /\ [](run # <<>> /\ run.pc = "ended" =>
             \A u \in Uids : Handled(u) => seen[u])
    /\ [][~FlaggedBeforeInsert]_vars

\* C20: a failure while one message is processed does not stop the run: at
\* its end every fetched message has been dealt with, a message that failed
\* is still unread and is not counted as processed, and a failure of the
\* LLM or of the notifications is only a warning, never the failure of the
\* message.
C20_FailuresAreContained ==
    (run # <<>> /\ run.pc = "ended") =>
        /\ \A k \in 1..Len(run.messages) : run.log[run.messages[k]] # "none"
        /\ \A u \in Uids : Failed(u) => ~seen[u]
        /\ run.processed_count = Cardinality({u \in Uids : run.log[u] = "stored"})
        /\ \A u \in run.warned :
              run.log[u] \in {"stored", "error: insert", "error: flag"}

(***************************************************************************)
(* Notification rules (backend/notifications/rule_matcher.py).  A dict is  *)
(* a record whose fields hold Absent (the key is not there), None or a     *)
(* value.                                                                  *)
(***************************************************************************)

Absent == [kind |-> "absent"]
None   == [kind |-> "None"]
Val(x) == [kind |-> "value", v |-> x]

\* dict.get(key, default)
dict_get(d, key, default) == IF d[key] = Absent THEN default ELSE d[key]

\* The truth value of None, of a string and of a list.
Truthy(x) == x # None /\ x.v # <<>>

\* The elements of a list.
Elements(list) == {list[k] : k \in 1..Len(list)}

True  == [exc |-> FALSE, value |-> TRUE]
False == [exc |-> FALSE, value |-> FALSE]

\* A matcher in which one passing filter is enough.
_rule_matches_newsletter_AnyFilter(rule, newsletter_data) ==
    LET topics == dict_get(newsletter_data, "topics", Val(<<>>))
        text == dict_get(newsletter_data, "plain_text", Val(<<>>))
        newsletter_ward == dict_get(newsletter_data, "ward_number", None)
        rule_topics == dict_get(rule, "topics", Val(<<>>))
        search_term == dict_get(rule, "search_term", None)
        rule_wards == dict_get(rule, "ward_numbers", Val(<<>>))
    IN IF Truthy(rule_topics)
          /\ \E k \in 1..Len(rule_topics.v) :
                rule_topics.v[k] \in Elements(topics.v)
       THEN True
       ELSE IF Truthy(search_term) /\ ContainsCI(text.v, search_term.v)
       THEN True
       ELSE IF Truthy(rule_wards) /\ newsletter_ward \in Elements(rule_wards.v)
       THEN True
       ELSE [exc |-> FALSE,
             value |-> ~Truthy(rule_topics) /\ ~Truthy(search_term)
                       /\ ~Truthy(rule_wards)]

\* _rule_matches_newsletter, lines 103-145.  set(None) and None.lower()
\* raise (lines 120, 121); the ward of the newsletter is looked for in the
\* list as it is, None included (line 141).
_rule_matches_newsletter(rule, newsletter_data) ==
    LET
        \* The call ended in an exception.
        Raised == [exc |-> TRUE, value |-> FALSE]
    IN
        LET topics == dict_get(newsletter_data, "topics", Val(<<>>))
            text == dict_get(newsletter_data, "plain_text", Val(<<>>))
            newsletter_ward == dict_get(newsletter_data, "ward_number", None)
            rule_topics == dict_get(rule, "topics", Val(<<>>))
            search_term == dict_get(rule, "search_term", None)
            rule_wards == dict_get(rule, "ward_numbers", Val(<<>>))
        IN IF topics = None \/ text = None THEN Raised
           ELSE IF Truthy(rule_topics)
                   /\ ~\E k \in 1..Len(rule_topics.v) :
                          rule_topics.v[k] \in Elements(topics.v)
           THEN False
           ELSE IF Truthy(search_term) /\ ~ContainsCI(text.v, search_term.v)
           THEN False
           ELSE IF Truthy(rule_wards) /\ newsletter_ward \notin Elements(rule_wards.v)
           THEN False
           ELSE True

\* The longest list of topics of a rule or of a newsletter.
MaxTopics == 2

InitMatch ==
    LET
        TopicNames == {"bike_lanes", "city_budget"}
        TopicLists == UNION {[1..n -> TopicNames] : n \in 0..MaxTopics}
        \* notification_rules rows: every filter may be NULL, empty or set (the
        \* columns are nullable; a row always has its columns, a dict built by hand
        \* may lack one).
        Rules ==
            [topics : {Absent, None} \cup {Val(l) : l \in TopicLists},
             search_term : {Absent, None, Val(<<>>), Val(<<"P", "a">>)},
             ward_numbers : {Absent, None, Val(<<>>), Val(<<Val(1)>>),
                             Val(<<Val(1), Val(2)>>)}]
        \* The newsletter data the callers build: topics a list, plain_text a str,
        \* ward_number an int or None; a key may be missing.
        NewsletterData ==
            [topics : {Absent} \cup {Val(l) : l \in TopicLists},
             plain_text : {Absent, Val(<<>>), Val(<<"p", "A", "r">>), Val(<<"a", "p">>)},
             ward_number : {Absent, None, Val(1), Val(3)}]
    IN
        /\ matching \in {[pc |-> "start", rule |-> r, newsletter_data |-> n,
                          returned |-> False] : r \in Rules, n \in NewsletterData}
        /\ OthersIdle("match")

\* match_newsletter_to_rules, line 75: the rule is matched against the
\* newsletter.
Match ==
    /\ matching.pc = "start"
    /\ matching' = [matching EXCEPT
          !.pc = "done",
          !.returned = _rule_matches_newsletter(matching.rule,
                                                matching.newsletter_data)]
    /\ OthersUnchanged("match")

SpecMatch == InitMatch /\ [][Match]_vars

(***************************************************************************)
(* Rule matching (SpecMatch)                                               *)
(***************************************************************************)

\* A filter of the rule that is there and not empty.
NonEmpty(rule, key) == rule[key] \notin {Absent, None} /\ rule[key].v # <<>>

\* A field of the newsletter, with what stands for a missing one.
Field(key, missing) ==
    IF matching.newsletter_data[key] = Absent THEN missing
    ELSE matching.newsletter_data[key]

\* The topics filter passes: some rule topic is a topic of the newsletter.
TopicsPass ==
    Elements(matching.rule.topics.v) \cap Elements(Field("topics", Val(<<>>)).v)
        # {}

\* The search term filter passes: the term occurs in the text, whatever the
\* case of the letters.
TermPasses ==
    LET text == Field("plain_text", Val(<<>>)).v
        term == matching.rule.search_term.v
    IN \E at \in 1..(Len(text) - Len(term) + 1) :
          [k \in 1..Len(term) |-> Lower(text[at + k - 1])]
              = [k \in 1..Len(term) |-> Lower(term[k])]

\* The ward filter passes: the ward of the newsletter is one of the rule's.
WardPasses ==
    Field("ward_number", None)
        \in Elements(matching.rule.ward_numbers.v)

\* C21: _rule_matches_newsletter never raises, whether plain_text is missing
\* or the ward number is None, and returns true exactly when every filter
\* of the rule that is not empty passes: a rule topic among the
\* newsletter's topics, the search term in the plain text whatever the
\* case, the newsletter's ward among the rule's wards.  An empty or missing
\* filter matches every newsletter.
C21_RuleMatchesIffFiltersPass ==
    matching.pc = "done" =>
        /\ ~matching.returned.exc
        /\ matching.returned.value <=>
              /\ NonEmpty(matching.rule, "topics") => TopicsPass
              /\ NonEmpty(matching.rule, "search_term") => TermPasses
              /\ NonEmpty(matching.rule, "ward_numbers") => WardPasses

\* A rule with its three filters set matches: the term "Pa" is found in
\* the text "pAr", the letters in another case.
C21_Witness ==
    /\ matching.pc = "done"
    /\ NonEmpty(matching.rule, "topics")
    /\ NonEmpty(matching.rule, "search_term")
    /\ NonEmpty(matching.rule, "ward_numbers")
    /\ matching.newsletter_data.plain_text = Val(<<"p", "A", "r">>)
    /\ matching.returned.value

(***************************************************************************)
(* queue_notifications (rule_matcher.py, lines 148-232): one insert per    *)
(* matched rule into notification_queue, whose unique constraint is on     *)
(* (user_id, newsletter_id, rule_id).                                      *)
(***************************************************************************)

\* The longest list of matched rules.
MaxRules == 2

\* Lines 174-182: the row queued for a matched rule.
Notification(match) ==
    LET
        \* The newsletter being queued and the day of the call (line 169).
        NEWSLETTER == "n1"
        TODAY == "2026-01-24"
    IN
        [user_id |-> match[1], newsletter_id |-> NEWSLETTER, rule_id |-> match[2],
         status |-> "pending", digest_batch_id |-> TODAY]

\* The unique constraint: a row with the key of n is in the table.
Duplicate(table, n) ==
    \E r \in table : /\ r.user_id = n.user_id
                     /\ r.newsletter_id = n.newsletter_id
                     /\ r.rule_id = n.rule_id

\* A test that takes every failure for a duplicate.
IsDuplicateError_Always(error_str) == TRUE

\* Lines 198-201: the failure is taken for a duplicate when its text holds
\* "duplicate" or "unique", in any case.
IsDuplicateError(error_str) ==
    \/ ContainsCI(error_str, <<"d", "u", "p", "l", "i", "c", "a", "t", "e">>)
    \/ ContainsCI(error_str, <<"u", "n", "i", "q", "u", "e">>)

\* A call that has not started: its argument and whether the client can be
\* built (SUPABASE_URL and SUPABASE_SERVICE_KEY are set, shared/db.py).
NewCall(matched_rules, client) ==
    [pc |-> "start", matched_rules |-> matched_rules, client |-> client,
     before |-> {}, notifications |-> <<>>, i |-> 0, queued_count |-> 0,
     failed_notifications |-> <<>>, attempts |-> <<>>, outcomes |-> <<>>,
     logged |-> 0, returned |-> -1]

InitQueue ==
    LET
        \* The (user_id, rule_id) pairs match_newsletter_to_rules can return.
        MatchedPairs == {<<1, 1>>, <<1, 2>>, <<2, 3>>}
        MatchedLists == UNION {[1..n -> MatchedPairs] : n \in 0..MaxRules}
    IN
        /\ notification_queue \in
              SUBSET {Notification(m) : m \in MatchedPairs}
        /\ queueing \in {NewCall(l, c) : l \in MatchedLists, c \in BOOLEAN}
        /\ OthersIdle("queue")

\* Lines 159-187 and 222-232: an empty list returns 0; a client that cannot
\* be built is caught by the outer handler, logged and answered with 0;
\* otherwise the rows are prepared and the counters start at zero.
QueueCall ==
    /\ queueing.pc = "start"
    /\ queueing' =
          IF queueing.matched_rules = <<>>
          THEN [queueing EXCEPT !.pc = "returned", !.returned = 0,
                                !.before = notification_queue]
          ELSE IF ~queueing.client
          THEN [queueing EXCEPT !.pc = "returned", !.returned = 0,
                                !.logged = @ + 1,
                                !.before = notification_queue]
          ELSE [queueing EXCEPT
                   !.pc = "insert", !.i = 1,
                   !.before = notification_queue,
                   !.notifications =
                       [k \in 1..Len(queueing.matched_rules) |->
                           Notification(queueing.matched_rules[k])]]
    /\ UNCHANGED notification_queue
    /\ OthersUnchanged("queue")

\* What the handler of lines 195-207 does with a failed insert.
InsertFailed(q, notification, error_str, outcome) ==
    [q EXCEPT
        !.failed_notifications =
            IF IsDuplicateError(error_str) THEN @
            ELSE Append(@, [notification |-> notification,
                            error |-> error_str]),
        !.attempts = Append(@, notification),
        !.outcomes = Append(@, outcome),
        !.i = @ + 1,
        !.pc = IF q.i = Len(q.notifications) THEN "log" ELSE "insert"]

\* Lines 189-207: one insert.  A row whose key is in the table violates the
\* unique constraint; any other insert succeeds or fails for another
\* reason.
QueueInsert ==
    LET
        \* str(e) of the exceptions an insert raises: PostgreSQL's unique
        \* violation, a foreign key violation (the rule was deleted meanwhile) and
        \* a failure of the connection.
        UniqueViolation ==
            <<"d", "u", "p", "l", "i", "c", "a", "t", "e", " ", "k", "e", "y", " ", "v", "a", "l", "u", "e", " ", "v", "i", "o", "l", "a", "t", "e", "s", " ", "u", "n", "i", "q", "u", "e", " ", "c", "o", "n", "s", "t", "r", "a", "i", "n", "t">>
        ForeignKeyViolation ==
            <<"v", "i", "o", "l", "a", "t", "e", "s", " ", "f", "o", "r", "e", "i", "g", "n", " ", "k", "e", "y", " ", "c", "o", "n", "s", "t", "r", "a", "i", "n", "t">>
        ConnectionError ==
            <<"D", "a", "t", "a", "b", "a", "s", "e", " ", "e", "r", "r", "o", "r">>
        OtherErrors == {ForeignKeyViolation, ConnectionError}
    IN
        /\ queueing.pc = "insert"
        /\ LET n == queueing.notifications[queueing.i]
           IN IF Duplicate(notification_queue, n)
              THEN /\ queueing' = InsertFailed(queueing, n, UniqueViolation,
                                               "duplicate")
                   /\ UNCHANGED notification_queue
              ELSE \/ /\ notification_queue' = notification_queue \cup {n}
                      /\ queueing' = [queueing EXCEPT
                            !.queued_count = @ + 1,
                            !.attempts = Append(@, n),
                            !.outcomes = Append(@, "inserted"),
                            !.i = @ + 1,
                            !.pc = IF queueing.i = Len(queueing.notifications)
                                   THEN "log" ELSE "insert"]
                   \/ /\ \E e \in OtherErrors :
                            queueing' = InsertFailed(queueing, n, e, "error")
                      /\ UNCHANGED notification_queue
        /\ OthersUnchanged("queue")

\* Lines 209-220: the failures that are not duplicates are logged in one
\* report and the count is returned.
QueueReturn ==
    /\ queueing.pc = "log"
    /\ queueing' = [queueing EXCEPT
          !.pc = "returned",
          !.logged = IF queueing.failed_notifications # <<>> THEN @ + 1 ELSE @,
          !.returned = queueing.queued_count]
    /\ UNCHANGED notification_queue
    /\ OthersUnchanged("queue")

NextQueue == QueueCall \/ QueueInsert \/ QueueReturn

SpecQueue == InitQueue /\ [][NextQueue]_vars

(***************************************************************************)
(* Queueing (SpecQueue)                                                    *)
(***************************************************************************)

\* The number of inserts of the call that ended this way.
Outcomes(o) ==
    Cardinality({k \in 1..Len(queueing.outcomes) : queueing.outcomes[k] = o})

\* C22: queue_notifications attempts one insert per matched rule, in order,
\* whatever happened to the inserts before it, and returns the number of
\* inserts that succeeded, which is the number of rows the table gained.
\* Unique violations are not logged as errors; other failures are logged in
\* one report per call.  A call that cannot get to the store returns 0.
C22_QueueCountsInserts ==
    queueing.pc = "returned" =>
        /\ queueing.client /\ queueing.matched_rules # <<>> =>
              /\ queueing.attempts =
                    [k \in 1..Len(queueing.matched_rules) |->
                        Notification(queueing.matched_rules[k])]
              /\ queueing.returned = Outcomes("inserted")
              /\ queueing.returned =
                    Cardinality(notification_queue \ queueing.before)
              /\ queueing.logged = IF Outcomes("error") > 0 THEN 1 ELSE 0
        /\ ~queueing.client \/ queueing.matched_rules = <<>> =>
              /\ queueing.returned = 0
              /\ queueing.attempts = <<>>
              /\ notification_queue = queueing.before
              /\ queueing.logged = IF queueing.matched_rules = <<>> THEN 0 ELSE 1

\* A call whose first insert fails for a reason other than a duplicate and
\* whose second insert succeeds returns 1 and has logged one report.
C22_Witness ==
    /\ queueing.pc = "returned"
    /\ queueing.outcomes = <<"error", "inserted">>
    /\ queueing.returned = 1
    /\ queueing.logged = 1

(***************************************************************************)
(* call_llm (backend/processing/llm_processor.py, lines 65-132).  Lengths  *)
(* are scaled: the prompts are a few characters long and so is the         *)
(* truncation threshold.                                                   *)
(***************************************************************************)

\* The largest max_retries a caller passes (MAX_LLM_RETRIES is 3).
MaxRetries == 4

\* RETRY_TRUNCATE_THRESHOLD (50000 in the source), in characters.
RETRY_TRUNCATE_THRESHOLD == 2

\* ollama_client.chat raised (a timeout, a refused connection, ...).
ChatError == [kind |-> "raise"]

\* original_prompt[:RETRY_TRUNCATE_THRESHOLD]
Truncated(original_prompt) ==
    Slice(original_prompt, 1,
          IF Len(original_prompt) < RETRY_TRUNCATE_THRESHOLD
          THEN Len(original_prompt) ELSE RETRY_TRUNCATE_THRESHOLD)

\* A check that only refuses the empty string.
EmptyResponse_NotStripped(o) == o = ChatError \/ o = None \/ o.v = <<>>

\* Lines 105-117: the attempt fails when chat raises or when the content is
\* None, empty or whitespace only.
EmptyResponse(o) == o = ChatError \/ o = None \/ Strip(o.v) = <<>>

InitLlm ==
    LET
        \* The prompts: shorter than the threshold, of its length and longer.
        Prompts == {<<"a">>, <<"a", "b">>, <<"a", "b", "c">>}
    IN
        /\ llm_call \in {[pc |-> "loop", attempt |-> 0, max_retries |-> n,
                     original_prompt |-> p, prompt |-> p, sent |-> <<>>,
                     responses |-> <<>>, slept |-> <<>>, returned |-> None] :
                       n \in 0..MaxRetries, p \in Prompts}
        /\ OthersIdle("llm")

\* Line 95: the head of the loop.  With attempts left the next one starts;
\* without, the loop is left and line 132 raises.
LlmLoop ==
    /\ llm_call.pc = "loop"
    /\ llm_call' = [llm_call EXCEPT !.pc = IF llm_call.attempt < llm_call.max_retries
                                 THEN "try" ELSE "raised"]
    /\ OthersUnchanged("llm")

\* Lines 96-129: one attempt.  On the third attempt the prompt is cut when
\* it is longer than the threshold; the prompt is sent; a good response is
\* returned, a failed attempt is followed by a wait or, when it was the
\* last one, by the exception of line 129.
LlmAttempt ==
    LET
        \* What one call of ollama_client.chat gives: an exception, or a response
        \* whose content is None, empty, whitespace only, or text.
        ChatOutcomes ==
            {ChatError, None, Val(<<>>), Val(<<" ", "\n", "\t">>), Val(<<"{", "}">>)}
    IN
        /\ llm_call.pc = "try"
        /\ \E o \in ChatOutcomes :
              LET prompt == IF llm_call.attempt = 2
                               /\ Len(llm_call.original_prompt) > RETRY_TRUNCATE_THRESHOLD
                            THEN Truncated(llm_call.original_prompt)
                            ELSE llm_call.prompt
              IN llm_call' = [llm_call EXCEPT
                    !.prompt = prompt,
                    !.sent = Append(@, prompt),
                    !.responses = Append(@, o),
                    !.returned = IF EmptyResponse(o) THEN @ ELSE o,
                    !.pc = IF ~EmptyResponse(o) THEN "returned"
                           ELSE IF llm_call.attempt < llm_call.max_retries - 1 THEN "sleep"
                           ELSE "raised"]
        /\ OthersUnchanged("llm")

\* Lines 123-127: time.sleep(2**attempt), then the next turn of the loop.
LlmSleep ==
    /\ llm_call.pc = "sleep"
    /\ llm_call' = [llm_call EXCEPT !.slept = Append(@, 2^llm_call.attempt),
                          !.attempt = @ + 1,
                          !.pc = "loop"]
    /\ OthersUnchanged("llm")

NextLlm == LlmLoop \/ LlmAttempt \/ LlmSleep

SpecLlm == InitLlm /\ [][NextLlm]_vars

(***************************************************************************)
(* Retries (SpecLlm)                                                       *)
(***************************************************************************)

\* The response has text other than whitespace.
HasText(o) == o \notin {ChatError, None} /\ \E k \in 1..Len(o.v) : o.v[k] \notin Whitespace

\* The call is over.
LlmOver == llm_call.pc \in {"returned", "raised"}

LowerStr(s) == [k \in 1..Len(s) |-> Lower(s[k])]

\* str.replace(old, new) for a one-character old.
str_replace(s, old, new) ==
    Concat([k \in 1..Len(s) |-> IF s[k] = old THEN new ELSE <<s[k]>>])

\* Line 143: "%" becomes ".*" and then every "." becomes "\.", the dot of
\* the ".*" just written included.
regex_pattern(pattern) ==
    str_replace(str_replace(pattern, "%", <<".", "*">>), ".", <<"\\", ".">>)

\* Lines 138-149: the test one mapping is put to.
mapping_matches(email_pattern, from_email) ==
    LET from_email_lower == LowerStr(from_email)
        pattern == LowerStr(email_pattern)
    IN IF \E k \in 1..Len(pattern) : pattern[k] = "%"
       THEN re_search(regex_pattern(pattern), from_email_lower)
       ELSE \/ ContainsCI(from_email_lower, pattern)
            \/ ContainsCI(pattern, from_email_lower)

\* The first mapping of the rows that passes the test, 0 when none does.
FirstMatch(from_email, data) ==
    LET hits == {k \in 1..Len(data) :
                    mapping_matches(data[k].email_pattern, from_email)}
    IN IF hits = {} THEN 0 ELSE Least(hits)

\* lookup_source_by_email: the source of the first mapping that passes,
\* None when there is no row or none passes.
lookup_source_by_email(from_email, data) ==
    IF FirstMatch(from_email, data) = 0 THEN None
    ELSE Val(data[FirstMatch(from_email, data)].sources)

\* The most rows email_source_mappings holds.
MaxMappings == 2

InitLookup ==
    LET
        \* The patterns of the table: a whole address, wildcards in front, around
        \* and in the middle, and letters in upper case.
        EmailPatterns ==
            {<<"a", "l", "@", "w", "1", ".", "o", "r", "g">>,
             <<"%", "@", "w", "1", ".", "o", "r", "g">>,
             <<"%", "@", "W", "1", ".", "O", "R", "G">>,
             <<"%", "w", "1", "%">>,
             <<"a", "l", "%", "@", "w", "2", ".", "o", "r", "g">>}
        \* A row with its joined source.
        Mappings ==
            {[email_pattern |-> e, sources |-> [id |-> i]] :
                e \in EmailPatterns, i \in {1}}
                \cup {[email_pattern |-> <<"%", "@", "w", "1", ".", "o", "r", "g">>, sources |-> [id |-> 2]]}
        MappingTables == UNION {[1..n -> Mappings] : n \in 0..MaxMappings}
        \* msg.from_: an address, the same in upper case, another address of the
        \* domain, an address of another domain, and "" (no From header).
        Senders ==
            {<<"a", "l", "@", "w", "1", ".", "o", "r", "g">>,
             <<"A", "L", "@", "W", "1", ".", "O", "R", "G">>,
             <<"b", "o", "@", "w", "1", ".", "o", "r", "g">>,
             <<"a", "l", "7", "@", "w", "2", ".", "o", "r", "g">>,
             <<>>}
    IN
        /\ lookup \in {[pc |-> "start", from_email |-> f, data |-> d,
                        returned |-> None] : f \in Senders, d \in MappingTables}
        /\ OthersIdle("lookup")

\* parse_newsletter, line 193: the source of the sender is looked up.
Lookup ==
    /\ lookup.pc = "start"
    /\ lookup' = [lookup EXCEPT
          !.pc = "done",
          !.returned = lookup_source_by_email(lookup.from_email, lookup.data)]
    /\ OthersUnchanged("lookup")

SpecLookup == InitLookup /\ [][Lookup]_vars

(***************************************************************************)
(* Sender lookup (SpecLookup)                                              *)
(***************************************************************************)

RECURSIVE LikeFrom(_, _, _, _)
\* The pattern from position i on matches the address from position j on,
\* "%" standing for any run of characters, letters compared without case.
LikeFrom(p, i, a, j) ==
    IF i > Len(p) THEN j > Len(a)
    ELSE IF p[i] = "%"
    THEN \E j2 \in j..(Len(a) + 1) : LikeFrom(p, i + 1, a, j2)
    ELSE /\ j <= Len(a)
         /\ Lower(p[i]) = Lower(a[j])
         /\ LikeFrom(p, i + 1, a, j + 1)

\* The pattern matches the sender address.
Like(email_pattern, from_email) == LikeFrom(email_pattern, 1, from_email, 1)

\* C24: lookup_source_by_email returns the source of the first mapping, in
\* stored order, whose pattern matches the sender address without regard to
\* case, "%" being a wildcard, and None when no mapping matches; for an
\* empty sender address it returns None whatever the mappings are.
C24_FirstMatchingMapping ==
    lookup.pc = "done" =>
        LET hits == {k \in 1..Len(lookup.data) :
                        /\ lookup.from_email # <<>>
                        /\ Like(lookup.data[k].email_pattern,
                                lookup.from_email)}
        IN lookup.returned =
              IF hits = {} THEN None
              ELSE Val(lookup.data[Least(hits)].sources)

(***************************************************************************)
(* The order of sanitizing and redacting (SpecConfig)                      *)
(***************************************************************************)

\* What the html or text sanitizer makes of the content as it was handed
\* over, no phrase redacted.
SanitizedUnredacted ==
    IF content_type = "html" THEN HtmlBranch(content, patterns).result
    ELSE TextBranch(content, patterns).result

\* C25: the phrases are redacted after the html or text sanitizer has run,
\* never before: the patterns are matched against the content as it was
\* handed over, and what is returned is the sanitizer's output with the
\* phrases redacted in it.  A phrase that stands only inside a removed
\* container, link or line leaves no marker: when no phrase is left in the
\* sanitizer's output, the result holds no marker.
C25_RedactionRunsLast ==
    (pc = "done" /\ content # <<>> /\ content_type \in {"html", "text"}) =>
        /\ result = LiteralRedact(SanitizedUnredacted, Phrases)
        /\ (\A k \in 1..Len(Phrases) :
                ~ContainsCI(SanitizedUnredacted, Phrases[k]))
              => ~Contains(result, REDACTED)

\* A tracked link was removed although its href holds the phrase '.n', and
\* the name inside it, a phrase too, left no marker.
C25_Witness ==
    /\ pc = "done" /\ content_type = "html" /\ ~raised
    /\ Phrases # <<>>
    /\ Contains(content, TRACKED)
    /\ ContainsCI(content, NAME)
    /\ ~Contains(result, <<"r", "s", "6">>)
    /\ ~Contains(result, REDACTED)

(***************************************************************************)
(* C26: which anchors link evaluation looks at                             *)
(***************************************************************************)

\* HTML contents sanitized under the shipped patterns, nothing to redact.
InitLinks ==
    LET
        \* The pieces of the inputs of this view: a keyword link without an href
        \* attribute, one with an empty href, the same anchors opened only, a
        \* keyword, a tracked link, an image and a closing tag.
        LinkFrags ==
            { <<"<a>">> \o KEYWORD \o <<"</a>">>,
              <<AHREF, HREFEND>> \o KEYWORD \o <<"</a>">>,
              <<"<a>">>,
              <<AHREF, HREFEND>>,
              <<AHREF>> \o TRACKED \o <<HREFEND>>,
              KEYWORD,
              <<"<img>">>,
              <<"</a>">> }
    IN
        /\ content_type = "html"
        /\ content \in Inputs(LinkFrags)
        /\ file = <<DefaultPatterns>>
        /\ cache = <<>>
        /\ env = <<>>
        /\ pc = "start"
        /\ result = <<>>
        /\ soup = <<>>
        /\ raised = FALSE
        /\ result2 = <<>>
        /\ calls = <<>>
        /\ NoMail
        /\ NoPipeline

SpecLinks == InitLinks /\ [][Sanitize]_vars

\* The anchor elements link evaluation finds in the tree, with or without
\* an href attribute.
AnchorTags(v) ==
    {a \in InTree(v.t1) : v.t1[a].kind = "tag" /\ v.t1[a].name = "a"}

\* C26 as stated: an anchor with no href attribute or with an empty href is
\* never removed or unwrapped by link evaluation, even when its rendered
\* text matches a text pattern (an anchor that goes with a removed anchor
\* around it is not removed by its own evaluation).
C26_EmptyHrefNeverTouched ==
    (Sanitized /\ content_type = "html") =>
        LET v == View IN
        \A a \in AnchorTags(v) :
            ((~v.t1[a].hasHref \/ v.t1[a].href = <<>>)
                /\ ~InsideRemovedLink(v, a)) => InOutput(a)

\* C26 as amended: link evaluation looks at the anchors that have an href
\* attribute, empty or not.  An anchor without the attribute is never
\* removed or unwrapped by it, even when its text matches a text pattern; an
\* anchor with an empty href is evaluated like any other and leaves the
\* output when a pattern matches its href or its text.
C26_OnlyAnchorsWithHrefEvaluated ==
    (Sanitized /\ content_type = "html") =>
        LET v == View IN
        \A a \in AnchorTags(v) :
            /\ (~v.t1[a].hasHref /\ ~InsideRemovedLink(v, a)) =>
                  /\ InOutput(a)
                  /\ ~raised => soup[a].open = v.t0[a].open
            /\ (v.t1[a].hasHref /\ v.t1[a].href = <<>>
                  /\ a \in Matched(v) /\ ~InsideRemovedLink(v, a)) =>
                  (~raised => soup[a].gone)

\* C26 witness: one call kept a keyword link that has no href attribute and
\* removed a keyword link whose href is empty.
C26_Witness ==
    /\ Sanitized /\ content_type = "html" /\ ~raised
    /\ LET v == View IN
         /\ \E a \in AnchorTags(v) :
               /\ ~v.t1[a].hasHref
               /\ AnySearch(TextPatterns, get_text(v.t1, a))
               /\ ~soup[a].gone
         /\ \E b \in AnchorTags(v) :
               /\ v.t1[b].hasHref /\ v.t1[b].href = <<>>
               /\ b \in v.textMatched
               /\ soup[b].gone

(***************************************************************************)
(* C27: the order of the entries of the pattern lists                      *)
(***************************************************************************)

\* The orders a list can be written in.
Orders(list) ==
    { [i \in 1..Len(list) |-> list[f[i]]] : f \in Permutations(1..Len(list)) }

\* The pattern sets that differ from the loaded one in the order of the
\* entries of their lists only.
Reordered ==
    { [url_patterns |-> u, text_patterns |-> t, selectors |-> c] :
        u \in Orders(UrlPatterns), t \in Orders(TextPatterns),
        c \in Orders(Selectors) }

\* What the first call came to: its return value, or that it raised.
Came == [result |-> result, exc |-> pc = "failed"]

\* What the call comes to under pattern set q.
ComesTo(q) ==
    LET r == sanitize_content(content, content_type, q, env)
    IN [result |-> r.result, exc |-> r.exc]

\* What the two pattern loops come to for one link when the list `first`
\* is tried on x before the list `second` on y.
LoopsOutcome(first, x, second, y) ==
    LET o == SearchOutcome(first, 1, x)
    IN IF o = "miss" THEN SearchOutcome(second, 1, y) ELSE o

\* C27: the output of sanitize_content does not depend on the order of the
\* entries of url_patterns, text_patterns or selectors, and for a link it
\* makes no difference whether the URL patterns or the text patterns are
\* tried first.
C27_OrderIndependent ==
    (Sanitized /\ content # <<>> /\ "text_patterns" \in DOMAIN patterns) =>
        /\ \A q \in Reordered : ComesTo(q) = Came
        /\ content_type = "html" =>
              LET v == View IN
              \A a \in v.links :
                  LoopsOutcome(UrlPatterns, v.t1[a].href,
                               TextPatterns, get_text(v.t1, a))
                  = LoopsOutcome(TextPatterns, get_text(v.t1, a),
                                 UrlPatterns, v.t1[a].href)

(***************************************************************************)
(* parse_newsletter: the message's html and text are sanitized, then the   *)
(* text is derived from the html when the message brought none             *)
(***************************************************************************)

RECURSIVE MarkdownFrom(_, _, _)
\* html2text on well-formed markup, for the children of `parent` with index
\* >= k: text as it stands, a link with an href as [text](href), an anchor
\* without one as its text, an image without a src as nothing, a block
\* element set off by blank lines.
MarkdownFrom(nodes, parent, k) ==
    IF k > Len(nodes) THEN <<>>
    ELSE LET n == nodes[k] IN
      IF n.gone \/ n.parent # parent THEN MarkdownFrom(nodes, parent, k + 1)
      ELSE (IF n.kind = "text" THEN n.text
            ELSE IF n.name \in VoidNames THEN <<>>
            ELSE IF n.name = "a"
                 THEN IF n.hasHref
                      THEN <<"[">> \o MarkdownFrom(nodes, k, k + 1)
                           \o <<"]", "(">> \o n.href \o <<")">>
                      ELSE MarkdownFrom(nodes, k, k + 1)
            ELSE <<"\n", "\n">> \o MarkdownFrom(nodes, k, k + 1)
                 \o <<"\n", "\n">>)
           \o MarkdownFrom(nodes, parent, k + 1)

\* html2text(html)
html2text(html) == MarkdownFrom(Parse(html), 0, 1) \o <<"\n", "\n">>

\* re.sub(r'\n{3,}', '\n\n', text): of a run of line feeds two are kept.
CollapseNewlines(text) ==
    LET Kept(k) == ~(/\ k > 2
                     /\ text[k] = "\n" /\ text[k - 1] = "\n"
                     /\ text[k - 2] = "\n")
    IN [i \in 1..Len(SelectSeq(UpTo(Len(text)), Kept)) |->
            text[SelectSeq(UpTo(Len(text)), Kept)[i]]]

\* clean_html_content(html): the html as plain text.
clean_html_content(html) ==
    IF html = <<>> THEN <<>>
    ELSE Strip(CollapseNewlines(html2text(html)))

\* A call of parse_newsletter at line 203: the message's parts, the
\* pattern set and the phrases of the process, and the locals.
InitParse ==
    LET
        \* The pieces of the html of a message: a tracked keyword link, an ordinary
        \* link on a name, a name, and a footer container around a keyword.
        MessageHtmlFrags ==
            { <<AHREF>> \o TRACKED \o <<HREFEND>> \o KEYWORD \o <<"</a>">>,
              <<AHREF>> \o PLAIN \o <<HREFEND>> \o NAME \o <<"</a>">>,
              NAME,
              <<"<div class=\"unsubscribe\">">> \o KEYWORD \o <<"</div>">> }
        \* msg.text: none, a keyword line, a name, a keyword line before a name.
        MessageTexts == { <<>>, KEYWORD, NAME, KEYWORD \o <<"\n">> \o NAME }
    IN
        /\ \E h \in Inputs(MessageHtmlFrags), t \in MessageTexts,
              p \in {DefaultPatterns, InvalidPatterns}, e \in EnvValues :
              parsing = [pc |-> "html", html |-> h, text |-> t,
                         patterns |-> p, env |-> e,
                         html_content |-> h, plain_text |-> t,
                         returned |-> <<>>]
        /\ OthersIdle("parse")

\* Lines 209-210: the html, when there is any, is sanitized.  The html
\* branch catches what it raises.
ParseSanitizeHtml ==
    /\ parsing # <<>> /\ parsing.pc = "html"
    /\ parsing' =
         [parsing EXCEPT
            !.html_content =
                IF @ = <<>> THEN @
                ELSE sanitize_content(@, "html", parsing.patterns,
                                      parsing.env).result,
            !.pc = "text"]
    /\ OthersUnchanged("parse")

\* Lines 212-213: the text, when there is any, is sanitized; an exception
\* of the text branch ends the call.
ParseSanitizeText ==
    /\ parsing # <<>> /\ parsing.pc = "text"
    /\ \E r \in {sanitize_content(parsing.plain_text, "text",
                                  parsing.patterns, parsing.env)} :
          parsing' =
            IF parsing.plain_text = <<>> THEN [parsing EXCEPT !.pc = "convert"]
            ELSE IF r.exc THEN [parsing EXCEPT !.pc = "raised"]
            ELSE [parsing EXCEPT !.plain_text = r.result, !.pc = "convert"]
    /\ OthersUnchanged("parse")

\* A conversion that reads the message's html instead of the local.
ParseConvert_FromRaw ==
    /\ parsing # <<>> /\ parsing.pc = "convert"
    /\ parsing' =
         [parsing EXCEPT
            !.plain_text =
                IF parsing.html_content # <<>> /\ @ = <<>>
                THEN clean_html_content(parsing.html) ELSE @,
            !.pc = "return"]
    /\ OthersUnchanged("parse")

\* Lines 216-217: with html and no text, the text is converted from the
\* html.
ParseConvert ==
    /\ parsing # <<>> /\ parsing.pc = "convert"
    /\ parsing' =
         [parsing EXCEPT
            !.plain_text =
                IF parsing.html_content # <<>> /\ @ = <<>>
                THEN clean_html_content(parsing.html_content) ELSE @,
            !.pc = "return"]
    /\ OthersUnchanged("parse")

\* Lines 219-228: the newsletter is returned.
ParseReturn ==
    /\ parsing # <<>> /\ parsing.pc = "return"
    /\ parsing' =
         [parsing EXCEPT
            !.returned = <<[raw_html |-> parsing.html_content,
                            plain_text |-> parsing.plain_text]>>,
            !.pc = "done"]
    /\ OthersUnchanged("parse")

NextParse ==
    ParseSanitizeHtml \/ ParseSanitizeText \/ ParseConvert \/ ParseReturn

SpecParse == InitParse /\ [][NextParse]_vars

(***************************************************************************)
(* C28                                                                     *)
(***************************************************************************)

\* What sanitize_content returns for the message's html and for its text.
SanitizedHtml ==
    sanitize_content(parsing.html, "html", parsing.patterns, parsing.env).result

SanitizedMsgText ==
    sanitize_content(parsing.text, "text", parsing.patterns, parsing.env).result

\* C28: parse_newsletter sanitizes the html and the text before any
\* conversion of html to text: when the conversion is due the html at hand
\* is the output of sanitize_content, the raw_html returned is that output,
\* the plain_text returned is the output of sanitize_content for the text
\* or, when that is empty, the conversion of the sanitized html, and for a
\* message without text it is never converted from anything else.
C28_SanitizedBeforeConversion ==
    /\ (parsing.pc \in {"convert", "return", "done"}) =>
          /\ parsing.html_content = SanitizedHtml
          /\ parsing.pc = "convert" => parsing.plain_text = SanitizedMsgText
    /\ parsing.pc = "done" =>
          LET r == parsing.returned[1] IN
          /\ r.raw_html = SanitizedHtml
          /\ r.plain_text =
                IF SanitizedMsgText # <<>> \/ SanitizedHtml = <<>>
                THEN SanitizedMsgText
                ELSE clean_html_content(SanitizedHtml)
          /\ parsing.text = <<>> =>
                r.plain_text = clean_html_content(SanitizedHtml)

\* C28 witness: a message without text was returned with a text converted
\* from its sanitized html, which is not what its raw html converts to: the
\* tracked URL is in the latter only.
C28_Witness ==
    /\ parsing.pc = "done" /\ parsing.text = <<>>
    /\ parsing.returned[1].plain_text # <<>>
    /\ parsing.returned[1].plain_text # clean_html_content(parsing.html)
    /\ Contains(clean_html_content(parsing.html), TRACKED)
    /\ ~Contains(parsing.returned[1].plain_text, TRACKED)

(***************************************************************************)
(* process_daily_digests: one digest per user from the pending rows of a   *)
(* batch.  No call of the run is guarded: an exception of the database or  *)
(* of the sender ends the run where it stands.                             *)
(***************************************************************************)

\* The rows the queue may hold and the runs made for one batch.
MaxQueued == 3
MaxRuns == 2

Users == {1, 2}

\* The batch the runs are made for (--batch-id) and another one.
BATCH == "2026-01-23"

\* Row i of notification_queue, in the order the rows were created: two
\* for user 1, then rows of user 2, the fourth of another batch.
QueuedRow(i, status) ==
    LET
        OTHER_BATCH == "2026-01-22"
    IN
        [id |-> i, user_id |-> IF i <= 2 THEN 1 ELSE 2, newsletter_id |-> i,
         rule_id |-> i, status |-> status,
         digest_batch_id |-> IF i = 4 THEN OTHER_BATCH ELSE BATCH]

\* get_pending_notifications_by_user(batch_id): the ids of the pending rows
\* of the batch, per user.
get_pending_notifications_by_user(table, digest_batch_id) ==
    [u \in Users |->
        {r.id : r \in {x \in table : /\ x.status = "pending"
                                      /\ x.digest_batch_id = digest_batch_id
                                      /\ x.user_id = u}}]

\* The keys of notifications_by_user in the order of their first row.
UsersInOrder(by_user) ==
    LET First(u) == CHOOSE i \in by_user[u] : \A j \in by_user[u] : i <= j
        Has(u) == by_user[u] # {}
        IsFirst(u) == Has(u) /\ \A w \in Users : Has(w) => First(u) <= First(w)
    IN IF \A u \in Users : ~Has(u) THEN <<>>
       ELSE LET a == CHOOSE u \in Users : IsFirst(u)
            IN <<a>> \o (IF \E w \in Users \ {a} : Has(w)
                         THEN <<CHOOSE w \in Users \ {a} : Has(w)>>
                         ELSE <<>>)

\* .update({"status": status}).in_("id", ids): every row named gets the
\* status, whatever it had.
Update(table, ids, status) ==
    { IF r.id \in ids THEN [r EXCEPT !.status = status] ELSE r : r \in table }

\* No run yet.
IdleDigest ==
    [pc |-> "idle", run_no |-> 0, dry_run |-> FALSE,
     selected |-> [u \in Users |-> {}],
     todo |-> <<>>, result |-> "none",
     stats |-> [sent |-> 0, failed |-> 0, skipped |-> 0],
     attempts |-> <<>>]

InitDigest ==
    LET
        \* The tables a run may find: any of the rows, each pending.
        QueueTables == { {QueuedRow(i, "pending") : i \in ids} : ids \in SUBSET (1..MaxQueued) }
    IN
        /\ OthersIdle("digest")
        /\ notification_queue \in QueueTables
        /\ user_profiles \in [Users -> {"enabled", "disabled", "missing"}]
        /\ digest = IdleDigest
        /\ outbox = <<>>
        /\ notification_history = <<>>

\* The user the loop is at and that user's notifications.
DigestUser == Head(digest.todo)
DigestIds == digest.selected[DigestUser]

\* The end of an iteration: the next user, or the summary and the return.
NextUser(d) ==
    [d EXCEPT !.todo = Tail(@), !.result = "none",
              !.pc = IF Tail(d.todo) = <<>> THEN "done" ELSE "profile"]

\* Lines 44-61: a run is started, the first one or one after an earlier
\* run returned or died.  The query or the client may raise; without
\* pending rows the run returns at once.
DigestStart ==
    LET
        \* The run is over, or was never started.
        DigestOver == digest.pc \in {"idle", "done", "crashed"}
    IN
        /\ DigestOver
        /\ digest.run_no < MaxRuns
        /\ \E dry \in BOOLEAN :
           LET fresh == [IdleDigest EXCEPT !.run_no = digest.run_no + 1,
                                           !.dry_run = dry,
                                           !.attempts = digest.attempts]
               by_user == get_pending_notifications_by_user(notification_queue,
                                                            BATCH)
           IN \/ digest' = [fresh EXCEPT !.pc = "crashed"]
              \/ digest' = [fresh EXCEPT
                              !.selected = by_user,
                              !.todo = UsersInOrder(by_user),
                              !.pc = IF UsersInOrder(by_user) = <<>>
                                     THEN "done" ELSE "profile"]
        /\ UNCHANGED <<notification_queue, outbox, notification_history>>
        /\ OthersUnchanged("digest")

\* Lines 68-92: the profile is read.  The read may raise (single() does
\* when there is no row); a missing profile is skipped and its rows stay as
\* they are; a user with notifications disabled is skipped and the rows
\* are marked failed (lines 183-190), unless that update raises.
DigestProfile ==
    /\ digest.pc = "profile"
    /\ \/ /\ digest' = [digest EXCEPT !.pc = "crashed"]
          /\ UNCHANGED notification_queue
       \/ /\ user_profiles[DigestUser] = "missing"
          /\ digest' = NextUser([digest EXCEPT !.stats.skipped = @ + 1])
          /\ UNCHANGED notification_queue
       \/ /\ user_profiles[DigestUser] = "disabled"
          /\ \/ /\ digest' = [digest EXCEPT !.stats.skipped = @ + 1,
                                            !.pc = "crashed"]
                /\ UNCHANGED notification_queue
             \/ /\ digest' = NextUser([digest EXCEPT !.stats.skipped = @ + 1])
                /\ notification_queue' =
                      Update(notification_queue, DigestIds, "failed")
       \/ /\ user_profiles[DigestUser] = "enabled"
          /\ digest' = [digest EXCEPT !.pc = "send"]
          /\ UNCHANGED notification_queue
    /\ UNCHANGED <<outbox, notification_history>>
    /\ OthersUnchanged("digest")

\* Lines 95-103 and 127-143: a dry run counts the user as sent and goes
\* on.  Otherwise send_daily_digest is called once with the user's
\* notifications: Resend accepts the digest, or the sender reports an
\* error, or the call raises (the sender of this tree takes other
\* arguments than line 99 passes).
DigestSend ==
    /\ digest.pc = "send"
    /\ \/ /\ digest.dry_run
          /\ digest' = NextUser([digest EXCEPT !.stats.sent = @ + 1])
          /\ UNCHANGED outbox
       \/ /\ ~digest.dry_run
          /\ \E o \in {"success", "error", "raised"} :
             /\ digest' =
                  [digest EXCEPT
                     !.attempts = Append(@, [run_no |-> digest.run_no,
                                             user_id |-> DigestUser,
                                             ids |-> DigestIds,
                                             outcome |-> o]),
                     !.result = o,
                     !.stats.sent = IF o = "success" THEN @ + 1 ELSE @,
                     !.stats.failed = IF o = "error" THEN @ + 1 ELSE @,
                     !.pc = IF o = "raised" THEN "crashed" ELSE "mark"]
             /\ outbox' = IF o = "success"
                          THEN Append(outbox, [user_id |-> DigestUser,
                                               digest_batch_id |-> BATCH,
                                               ids |-> DigestIds])
                          ELSE outbox
    /\ UNCHANGED <<notification_queue, notification_history>>
    /\ OthersUnchanged("digest")

\* Lines 105-109 and 145-149: the rows are marked sent or failed, unless
\* the update raises.
DigestMark ==
    /\ digest.pc = "mark"
    /\ \/ /\ digest' = [digest EXCEPT !.pc = "crashed"]
          /\ UNCHANGED notification_queue
       \/ /\ digest' = [digest EXCEPT !.pc = "history"]
          /\ notification_queue' =
                Update(notification_queue, DigestIds,
                       IF digest.result = "success" THEN "sent" ELSE "failed")
    /\ UNCHANGED <<outbox, notification_history>>
    /\ OthersUnchanged("digest")

\* Lines 111-125 and 151-168: the send is recorded in the history, unless
\* the insert raises, and the loop goes on.
DigestHistory ==
    /\ digest.pc = "history"
    /\ \/ /\ digest' = [digest EXCEPT !.pc = "crashed"]
          /\ UNCHANGED notification_history
       \/ /\ digest' = NextUser(digest)
          /\ notification_history' =
                Append(notification_history,
                       [user_id |-> DigestUser, digest_batch_id |-> BATCH,
                        success |-> digest.result = "success"])
    /\ UNCHANGED <<notification_queue, outbox>>
    /\ OthersUnchanged("digest")

NextDigest ==
    DigestStart \/ DigestProfile \/ DigestSend \/ DigestMark \/ DigestHistory

SpecDigest == InitDigest /\ [][NextDigest]_vars

(***************************************************************************)
(* C29, C30                                                                *)
(***************************************************************************)

\* The sends the current run attempted for user u.
Sends(u) ==
    {k \in 1..Len(digest.attempts) :
        /\ digest.attempts[k].run_no = digest.run_no
        /\ digest.attempts[k].user_id = u}

\* The status of the row with id i.
StatusOf(i) == (CHOOSE r \in notification_queue : r.id = i).status

\* A run that was not a dry run has ended: it returned or it died.
RunEnded == digest.pc \in {"done", "crashed"} /\ ~digest.dry_run

\* C29: after a run that is not a dry run, for each user who had pending
\* notifications in the batch exactly one send was attempted, covering all
\* of them, and all of them are 'sent' when it succeeded and 'failed' when
\* it did not; for a user with notifications disabled nothing was sent and
\* they are 'failed'.
C29_OneSendPerUser ==
    RunEnded =>
        \A u \in Users :
            digest.selected[u] # {} =>
                IF user_profiles[u] = "disabled"
                THEN /\ Sends(u) = {}
                     /\ \A i \in digest.selected[u] : StatusOf(i) = "failed"
                ELSE \E k \in Sends(u) :
                        /\ Sends(u) = {k}
                        /\ digest.attempts[k].ids = digest.selected[u]
                        /\ \A i \in digest.selected[u] :
                              StatusOf(i) =
                                 IF digest.attempts[k].outcome = "success"
                                 THEN "sent" ELSE "failed"

\* The last clause of C29 by itself: a row that is 'sent' or 'failed' keeps
\* that status, and a run that starts does not select it.
SettledStaysSettled ==
    [][\A r \in notification_queue :
          r.status \in {"sent", "failed"} =>
              /\ r \in notification_queue'
              /\ (digest.pc # digest'.pc /\ digest'.pc = "profile"
                    /\ digest.pc \in {"idle", "done", "crashed"})
                    => r.id \notin UNION {digest'.selected[u] : u \in Users}]_vars

\* C30: whatever became of the earlier runs for the batch, no user is sent
\* two digests for it.
C30_NoSecondDigest ==
    \A i, j \in 1..Len(outbox) :
        (i # j /\ outbox[i].digest_batch_id = outbox[j].digest_batch_id) =>
            outbox[i].user_id # outbox[j].user_id

====
